---- MODULE Spec2Model ----
(***************************************************************************)
(* A model of TGBot_RSS: the RSS check cycle (checkAllRSS,                 *)
(* processSubscription, fetchRSS and the feed_data cursor), the keyword    *)
(* matcher (matchesKeywords) and the cached AI request handlers            *)
(* (AIHandler.HandleTranslateRequest / HandleSummarizeRequest).            *)
(*                                                                         *)
(* The specifications share the variables:                                 *)
(*   Spec        the check cycle: coordinator, one processor per           *)
(*               subscription, the cursor table and the dispatched pushes  *)
(*   SpecLive    Spec with the scheduling of the coordinator               *)
(*   SpecMatch   matchesKeywords applied to bounded messages and rule lists*)
(*   SpecAI      concurrent callers of the AI request handlers, the cache  *)
(*               table and the usage table                                 *)
(*   SpecHash    generateContentHash on pairs of requests                  *)
(*   SpecDeliver one delivery event: AI preferences, AI processing and     *)
(*               the rendering of the notification                         *)
(*   SpecSend    the check cycle with the sender goroutines it starts      *)
(*   SpecPrefs   UpdateUserAIPreferences and GetUserAIPreferences on table *)
(*               user_ai_preferences                                       *)
(*   SpecRepeat  the check cycle on feeds that keep serving one document   *)
(*                                                                         *)
(* Text is a sequence of one-character strings.  Time is a number of       *)
(* ticks, TicksPerSecond ticks to the second; 0 is Go's zero time.Time.    *)
(***************************************************************************)
EXTENDS Integers, Sequences, FiniteSets, Bags, TLC

VARIABLES
    \* ---- SpecMatch
    mt,              \* the matcher run: message, rule list, result
    \* ---- SpecHash
    ht,              \* two requests and the texts hashed for them
    \* ---- SpecDeliver
    dl,              \* one delivery event: its inputs, position and notifications
    \* ---- SpecSend
    sd,              \* the sender goroutines of a cycle that have returned
    \* ---- SpecPrefs
    pf,              \* table user_ai_preferences and the calls on it
    \* ---- SpecRepeat
    rp,              \* the document each feed keeps serving, if it does
    \* ---- Spec (the check cycle)
    now,             \* the wall clock, in ticks (time.Now)
    feed_data,       \* table feed_data: rss_name -> row or NoRow
    user_keywords,   \* table user_keywords: user_id -> parsed rule list
    cpc,             \* checkAllRSS: "idle" | "waiting" (in wg.Wait)
    cycle,           \* number of cycles started
    userKeywords,    \* checkAllRSS's map, loaded once per cycle
    pc,              \* per subscription: position of its processor
    ps,              \* per subscription: locals of fetchRSS/processSubscription
    dispatched,      \* bag of notifications handed to the sender goroutines
                     \* in the current cycle
    maxSeen,         \* per feed: greatest item time of the completed fetches
    faults,          \* number of storage failures so far
    \* ---- SpecAI
    ai_processing_records,  \* cache table: <<content_hash, content_type>> -> row
    ai_usage_stats,         \* usage table: the rows of today, in insertion order
    rq,              \* per caller: the request in progress or last finished
    nreq,            \* number of requests issued
    aiFaults,        \* number of failed statements on the AI tables so far
    paidCalls,       \* bag of <<hash, output>>, one copy per successful
                     \* provider call
    servedKeys       \* hashes of the requests that returned a result after
                     \* their cache write succeeded

mvars  == <<mt, ht, dl, sd, pf, rp>>
cvars  == <<now, feed_data, user_keywords, cpc, cycle, userKeywords, pc, ps,
            dispatched, maxSeen, faults>>
avars  == <<ai_processing_records, ai_usage_stats, rq, nreq, aiFaults, paidCalls,
            servedKeys>>
vars   == <<mt, ht, dl, sd, pf, rp, now, feed_data, user_keywords, cpc, cycle, userKeywords, pc, ps,
            dispatched, maxSeen, faults, ai_processing_records, ai_usage_stats, rq,
            nreq, aiFaults, paidCalls, servedKeys>>

-----------------------------------------------------------------------------
(* Text helpers: package strings.                                          *)

UpperChars == <<"A","B","C","D","E","F","G","H","I","J","K","L","M",
                "N","O","P","Q","R","S","T","U","V","W","X","Y","Z">>
LowerChars == <<"a","b","c","d","e","f","g","h","i","j","k","l","m",
                "n","o","p","q","r","s","t","u","v","w","x","y","z">>

ToLowerChar(c) ==
    IF \E i \in 1..Len(UpperChars) : UpperChars[i] = c
    THEN LowerChars[CHOOSE i \in 1..Len(UpperChars) : UpperChars[i] = c]
    ELSE c

\* strings.ToLower
ToLower(s) == [i \in 1..Len(s) |-> ToLowerChar(s[i])]

IsSpace(c) == c \in {" ", "\n", "\t", "\r"}

RECURSIVE TrimLeft(_)
TrimLeft(s) == IF s # <<>> /\ IsSpace(Head(s)) THEN TrimLeft(Tail(s)) ELSE s

RECURSIVE TrimRight(_)
TrimRight(s) ==
    IF s # <<>> /\ IsSpace(s[Len(s)]) THEN TrimRight(SubSeq(s, 1, Len(s) - 1))
    ELSE s

\* strings.TrimSpace
TrimSpace(s) == TrimRight(TrimLeft(s))

\* strings.HasPrefix
HasPrefix(s, p) == Len(s) >= Len(p) /\ SubSeq(s, 1, Len(p)) = p

\* strings.TrimPrefix
TrimPrefix(s, p) == IF HasPrefix(s, p) THEN SubSeq(s, Len(p) + 1, Len(s)) ELSE s

\* strings.Contains
Contains(s, sub) ==
    \E i \in 0..(Len(s) - Len(sub)) : SubSeq(s, i + 1, i + Len(sub)) = sub

\* strings.ReplaceAll(s, old, new) for a one-character old
RECURSIVE ReplaceAll(_, _, _)
ReplaceAll(s, old, new) ==
    IF s = <<>> THEN <<>>
    ELSE (IF Head(s) = old THEN new ELSE <<Head(s)>>)
         \o ReplaceAll(Tail(s), old, new)

-----------------------------------------------------------------------------
(* regexp.Compile and Regexp.MatchString, for the patterns matchesKeywords *)
(* builds.  The pattern alphabet is that of the rules of the model:        *)
(* letters, digits, ' ', '%', '-' stand for themselves; '.' is any         *)
(* character but a line break; ".*" repeats it; '^' and '$' are the ends   *)
(* of the text (no multi-line flag); '(' opens a group that the patterns   *)
(* here never close, which regexp.Compile rejects.                         *)

CompileError == [err |-> TRUE]

RECURSIVE regexpTokens(_)
regexpTokens(p) ==
    IF p = <<>> THEN <<>>
    ELSE IF Head(p) = "." /\ Len(p) >= 2 /\ p[2] = "*"
         THEN <<[k |-> "anystar"]>> \o regexpTokens(SubSeq(p, 3, Len(p)))
    ELSE IF Head(p) = "." THEN <<[k |-> "any"]>> \o regexpTokens(Tail(p))
    ELSE IF Head(p) = "^" THEN <<[k |-> "bot"]>> \o regexpTokens(Tail(p))
    ELSE IF Head(p) = "$" THEN <<[k |-> "eot"]>> \o regexpTokens(Tail(p))
    ELSE <<[k |-> "lit", c |-> Head(p)]>> \o regexpTokens(Tail(p))

regexpCompile(p) ==
    IF \E i \in 1..Len(p) : p[i] = "(" THEN CompileError
    ELSE [err |-> FALSE, toks |-> regexpTokens(p)]

\* does the text from position i on (1-based; n = Len(text)) match toks?
RECURSIVE matchHere(_, _, _)
matchHere(toks, text, i) ==
    IF toks = <<>> THEN TRUE
    ELSE LET t == Head(toks) IN
         CASE t.k = "bot" -> i = 1 /\ matchHere(Tail(toks), text, i)
           [] t.k = "eot" -> i = Len(text) + 1 /\ matchHere(Tail(toks), text, i)
           [] t.k = "any" -> /\ i <= Len(text)
                             /\ text[i] # "\n"
                             /\ matchHere(Tail(toks), text, i + 1)
           [] t.k = "anystar" ->
                  \/ matchHere(Tail(toks), text, i)
                  \/ /\ i <= Len(text)
                     /\ text[i] # "\n"
                     /\ matchHere(toks, text, i + 1)
           [] t.k = "lit" -> /\ i <= Len(text)
                             /\ text[i] = t.c
                             /\ matchHere(Tail(toks), text, i + 1)

\* Regexp.MatchString: a match starting anywhere
MatchString(re, text) ==
    \E i \in 1..(Len(text) + 1) : matchHere(re.toks, text, i)

-----------------------------------------------------------------------------
(* The keyword matcher.                                                    *)

Str_dash == <<"-">>
Str_star == <<"*">>

\* a Message (Link is never read by the functions modelled here)
Message(title, description, pubDate) ==
    [Title |-> title, Description |-> description, PubDate |-> pubDate]

\* content := strings.ToLower(msg.Title + " " + msg.Description)
matchContent(msg) == ToLower(msg.Title \o <<" ">> \o msg.Description)

\* a pattern without the leading ".*": anchored at the start of the text
keywordPattern_anchoredStart(lowerKeyword) ==
    <<"^">> \o ReplaceAll(lowerKeyword, "*", <<".", "*">>) \o <<".", "*", "$">>

\* pattern := "^.*" + ReplaceAll(lowerKeyword, "*", ".*") + ".*$"
keywordPattern(lowerKeyword) ==
    <<"^", ".", "*">> \o ReplaceAll(lowerKeyword, "*", <<".", "*">>)
                      \o <<".", "*", "$">>

\* a test in which a wildcard rule whose pattern does not compile hits
\* nothing
keywordHits_skipsUncompilable(content, lowerKeyword) ==
    LET re == regexpCompile(keywordPattern(lowerKeyword))
        isWildcard == Contains(lowerKeyword, Str_star)
    IN  IF isWildcard /\ re.err THEN FALSE
        ELSE \/ isWildcard /\ MatchString(re, content)
             \/ Contains(content, lowerKeyword)

\* a test in which a wildcard rule hits by its pattern only
keywordHits_patternOnly(content, lowerKeyword) ==
    LET re == regexpCompile(keywordPattern(lowerKeyword))
    IN  IF Contains(lowerKeyword, Str_star)
        THEN ~re.err /\ MatchString(re, content)
        ELSE Contains(content, lowerKeyword)

\* the two tests of the loop body: the pattern when the rule has a '*' and
\* compiles and matches, else (also after a failed compile or a failed
\* pattern match) plain containment of the rule text, '*' included
keywordHits(content, lowerKeyword) ==
    LET re == regexpCompile(keywordPattern(lowerKeyword))
        regexHit == /\ Contains(lowerKeyword, Str_star)
                    /\ ~re.err
                    /\ MatchString(re, content)
    IN  regexHit \/ Contains(content, lowerKeyword)

\* the rule after TrimSpace and after stripping one leading '-'
ruleText(rawKeyword) == TrimPrefix(TrimSpace(rawKeyword), Str_dash)
ruleIsBlock(rawKeyword) == HasPrefix(TrimSpace(rawKeyword), Str_dash)

\* one iteration of the loop over keywords
keywordStep(acc, rawKeyword, content) ==
    LET keyword == ruleText(rawKeyword) IN
    IF TrimSpace(rawKeyword) = <<>> THEN acc
    ELSE IF ~keywordHits(content, ToLower(keyword)) THEN acc
    ELSE IF ruleIsBlock(rawKeyword)
         THEN [acc EXCEPT !.blocked = Append(@, keyword)]
         ELSE [acc EXCEPT !.matched = Append(@, keyword)]

RECURSIVE keywordLoop(_, _, _)
keywordLoop(acc, keywords, content) ==
    IF keywords = <<>> THEN acc
    ELSE keywordLoop(keywordStep(acc, Head(keywords), content),
                     Tail(keywords), content)

\* a matcher in which a block rule does not veto the inclusion matches
matchesKeywords_noVeto(msg, keywords) ==
    keywordLoop([matched |-> <<>>, blocked |-> <<>>], keywords,
                matchContent(msg)).matched

\* matchesKeywords: the matched rules, or nothing when a block rule hit
matchesKeywords(msg, keywords) ==
    IF keywords = <<>> THEN <<>>
    ELSE LET acc == keywordLoop([matched |-> <<>>, blocked |-> <<>>],
                                keywords, matchContent(msg))
         IN  IF Len(acc.blocked) > 0 THEN <<>> ELSE acc.matched

-----------------------------------------------------------------------------
(* SpecMatch: matchesKeywords on bounded inputs.                           *)

MaxRules == 2

SeqsUpTo(S, n) == UNION {[1..k -> S] : k \in 0..n}

T_sale   == <<"s","a","l","e">>
T_Sale   == <<"S","a","l","e">>
T_SALE   == <<"S","A","L","E">>
T_nsale  == <<"-","s","a","l","e">>
T_50pct  == <<"5","0","%">>
T_50off  == <<"5","0","%"," ","o","f","f">>
T_deaW   == <<"d","e","a","*">>
T_ndeaW  == <<"-","d","e","a","*">>
T_dea    == <<"d","e","a">>
T_idea   == <<"i","d","e","a">>
T_deal   == <<"d","e","a","l">>
T_dealer == <<"d","e","a","l","e","r">>
T_plan   == <<"p","l","a","n">>
T_newdeal == <<"n","e","w","\n","d","e","a","l">>
T_adotcW == <<"a",".","c","*">>
T_abcd   == <<"a","b","c","d">>
T_parenW == <<"(","*">>
T_xparen == <<"x","(","*">>

T_blank  == <<" ">>

MatchRules == {T_sale, T_SALE, T_nsale, T_50pct, T_deaW, T_ndeaW, T_adotcW,
               T_parenW, Str_dash, T_blank}

MatchMessages ==
    { Message(T_Sale, T_50off, 0), Message(T_idea, <<>>, 0),
      Message(T_deal, <<>>, 0),    Message(T_dealer, <<>>, 0),
      Message(T_plan, <<>>, 0),    Message(T_plan, T_newdeal, 0),
      Message(T_abcd, <<>>, 0),    Message(T_deal, T_xparen, 0) }

MatchIdle == [msg |-> Message(<<>>, <<>>, 0), keywords |-> <<>>,
              result |-> <<>>, done |-> TRUE]

InitMatch ==
    /\ mt \in {[msg |-> m, keywords |-> k, result |-> <<>>, done |-> FALSE] :
                 m \in MatchMessages, k \in SeqsUpTo(MatchRules, MaxRules)}

\* the call matchedKeywords := matchesKeywords(msg, keywords)
MatchRun ==
    /\ ~mt.done
    /\ mt' = [mt EXCEPT !.result = matchesKeywords(mt.msg, mt.keywords),
                        !.done = TRUE]

-----------------------------------------------------------------------------
(* The check cycle: configuration and inputs.                              *)

TicksPerSecond == 2      \* resolution of the clock of the model
MaxClock  == 2           \* the wall clock runs over 1..MaxClock
MaxItems  == 2           \* items in one feed document
MaxCycles == 2           \* calls of checkAllRSS
MaxFaults == 1           \* failing statements on table feed_data

ADMINIDS == 1            \* globalConfig.ADMINIDS

Users == {1, 2}

T_a   == <<"a">>
T_b   == <<"b">>
T_ab  == <<"a", "b">>
T_nab == <<"-", "a", "b">>

\* the rows of table subscriptions, as getSubscriptions returns them
subscriptions ==
    << [ID |-> 1, Name |-> "f1", Users |-> <<1, 2>>, Channel |-> 1],
       [ID |-> 2, Name |-> "f2", Users |-> <<2>>,    Channel |-> 0] >>

SubIDs    == {subscriptions[i].ID : i \in 1..Len(subscriptions)}
Sub(id)   == subscriptions[CHOOSE i \in 1..Len(subscriptions) :
                               subscriptions[i].ID = id]
FeedNames == {subscriptions[i].Name : i \in 1..Len(subscriptions)}

\* the contents table user_keywords can have: per user the parsed rule list,
\* empty when the user has no row or no rule
KeywordTables ==
    {[u \in Users |-> IF u = 1 THEN <<T_a>> ELSE k2] :
        k2 \in {<<>>, <<T_b, T_nab>>}}

\* a gofeed.Item; a nil *time.Time is <<>>, a set one is <<t>>
Item(title, published, updated) ==
    [Title |-> title, Description |-> <<>>,
     PublishedParsed |-> published, UpdatedParsed |-> updated]

FeedItems ==
    { Item(T_a, <<TicksPerSecond>>, <<>>),
      Item(T_b, <<>>, <<2 * TicksPerSecond + 1>>),
      Item(T_ab, <<>>, <<>>) }

Distinct(q) == \A i, j \in 1..Len(q) : i # j => q[i] # q[j]

\* what the feed URL can serve: up to MaxItems different items, in any order
FeedDocs == {d \in SeqsUpTo(FeedItems, MaxItems) : Distinct(d)}

\* the documents served at the URL of a subscription: any for the first,
\* those of at most one item for the others
FeedDocsOf(subID) ==
    IF subID = 1 THEN FeedDocs ELSE {d \in FeedDocs : Len(d) <= 1}

\* rp when the feeds may serve another document at every fetch
AnyDocument == [same |-> FALSE, doc |-> [s \in SubIDs |-> <<>>]]

\* the documents a fetch of the subscription can get
servedDocs(subID) ==
    IF rp.same THEN {rp.doc[subID]} ELSE FeedDocsOf(subID)

\* time.Time.Format("2006-01-02 15:04:05"): whole seconds, the fraction is
\* dropped; the stored text is modelled by the number of seconds
FormatTime(t) == t \div TicksPerSecond

\* time.Parse("2006-01-02 15:04:05", timeStr)
ParseTime(timeStr) == timeStr * TicksPerSecond

\* a row of feed_data; latest_title is written with the time and never read,
\* the model leaves it out
NoRow == [exists |-> FALSE]
Row(timeStr) == [exists |-> TRUE, last_update_time |-> timeStr]

Max(a, b) == IF a > b THEN a ELSE b

\* getItemTime: published, else updated, else time.Now()
getItemTime(item, clock) ==
    IF item.PublishedParsed # <<>> THEN item.PublishedParsed[1]
    ELSE IF item.UpdatedParsed # <<>> THEN item.UpdatedParsed[1]
    ELSE clock

\* a selection that also takes the items dated exactly at the cursor
isNewItem_orEqual(pubTime, lastUpdateTime) == pubTime >= lastUpdateTime

\* pubTime.After(lastUpdateTime)
isNewItem(pubTime, lastUpdateTime) == pubTime > lastUpdateTime

\* the loop of fetchRSS over feed.Items: the new messages and latestTime
RECURSIVE fetchLoop(_, _, _, _)
fetchLoop(feedItems, lastUpdateTime, clock, acc) ==
    IF feedItems = <<>> THEN acc
    ELSE LET item    == Head(feedItems)
             pubTime == getItemTime(item, clock)
             latest  == Max(acc.latestTime, pubTime)
             msgs    == IF isNewItem(pubTime, lastUpdateTime)
                        THEN Append(acc.messages,
                                    Message(item.Title, item.Description, pubTime))
                        ELSE acc.messages
         IN  fetchLoop(Tail(feedItems), lastUpdateTime, clock,
                       [messages |-> msgs, latestTime |-> latest])

\* getUserKeywords: only users with at least one rule get a map entry
getUserKeywords(table) ==
    [u \in {v \in DOMAIN table : Len(table[v]) > 0} |-> table[u]]

\* userKeywords[userID]: nil for a missing key
keywordsOf(map, userID) == IF userID \in DOMAIN map THEN map[userID] ELSE <<>>

\* a push decision with a deliver-all mode for users without rules
isDeliveryEvent_fullPush(msg, keywords) ==
    Len(keywords) = 0 \/ Len(matchesKeywords(msg, keywords)) > 0

\* a push decision that skips the matcher for users with rules
isDeliveryEvent_anyRule(msg, keywords) == Len(keywords) # 0

\* processSubscription's test for one (message, user) pair
isDeliveryEvent(msg, keywords) ==
    Len(keywords) # 0 /\ Len(matchesKeywords(msg, keywords)) > 0

\* the titles of the messages a fetch returned
titlesOf(messages) == {messages[i].Title : i \in 1..Len(messages)}

\* the locals of one processor before its fetch; returnedBefore is the
\* history of the feed: the titles that earlier fetches returned as new,
\* kept while the feed serves one document
FreshLocals ==
    [items |-> <<>>, found |-> "none", stored |-> NoRow, seenBefore |-> 0,
     lastUpdateTime |-> 0, clock |-> 0, latestTime |-> 0, messages |-> <<>>,
     fetchErr |-> FALSE, updated |-> "no", mi |-> 1, ui |-> 1, ret |-> "none",
     returnedBefore |-> {}]

\* what is kept of the locals of a processor that has returned: the result
\* of its fetch and the return statement it left by
Returned(l, how) ==
    [FreshLocals EXCEPT !.messages = l.messages, !.latestTime = l.latestTime,
                        !.fetchErr = l.fetchErr, !.updated = l.updated,
                        !.ret = how, !.returnedBefore = l.returnedBefore]

\* a notification handed to a sender goroutine
Push(to, subID, title, kind) ==
    [to |-> to, sub |-> subID, title |-> title, kind |-> kind]

-----------------------------------------------------------------------------
(* The check cycle: actions.  A step is one network call or one SQL        *)
(* statement together with the local code around it.                       *)

FeedOf(s) == Sub(s).Name

\* checkAllRSS up to the start of the goroutines: both loads succeed
StartCycle ==
    /\ cpc = "idle"
    /\ cycle < MaxCycles
    /\ cycle' = cycle + 1
    /\ userKeywords' = getUserKeywords(user_keywords)
    /\ pc' = [s \in SubIDs |-> "fetch"]
    /\ ps' = [s \in SubIDs |->
                [FreshLocals EXCEPT
                   !.returnedBefore =
                       IF rp.same
                       THEN ps[s].returnedBefore \cup titlesOf(ps[s].messages)
                       ELSE {}]]
    /\ cpc' = "waiting"
    /\ dispatched' = EmptyBag
    /\ UNCHANGED <<now, feed_data, user_keywords, maxSeen, faults>>
    /\ UNCHANGED <<mvars, avars>>

\* checkAllRSS returning early: getSubscriptions or getUserKeywords failed
LoadFail ==
    /\ cpc = "idle"
    /\ cycle < MaxCycles
    /\ cycle' = cycle + 1
    /\ UNCHANGED <<now, feed_data, user_keywords, cpc, userKeywords, pc, ps,
                   dispatched, maxSeen, faults>>
    /\ UNCHANGED <<mvars, avars>>

\* a failed fetch that also stops the processors of the other subscriptions
ParseURLFail_abortsCycle(s) ==
    /\ pc[s] = "fetch"
    /\ ps' = [ps EXCEPT ![s].fetchErr = TRUE]
    /\ pc' = [t \in SubIDs |-> "done"]
    /\ UNCHANGED <<now, feed_data, user_keywords, cpc, cycle, userKeywords,
                   dispatched, maxSeen, faults>>
    /\ UNCHANGED <<mvars, avars>>

\* parser.ParseURL fails: fetchRSS returns the error, the processor logs it
\* and returns
ParseURLFail(s) ==
    /\ pc[s] = "fetch"
    /\ ps' = [ps EXCEPT ![s] = Returned([@ EXCEPT !.fetchErr = TRUE], "fetcherr")]
    /\ pc' = [pc EXCEPT ![s] = "done"]
    /\ UNCHANGED <<now, feed_data, user_keywords, cpc, cycle, userKeywords,
                   dispatched, maxSeen, faults>>
    /\ UNCHANGED <<mvars, avars>>

\* a fetch that writes the cursor row before it looks at the items
ParseURL_createsRow(s) ==
    /\ pc[s] = "fetch"
    /\ \E doc \in servedDocs(s) :
          /\ ps' = [ps EXCEPT ![s] =
                       IF Len(doc) = 0 THEN Returned(@, "empty")
                       ELSE [@ EXCEPT !.items = doc,
                                      !.seenBefore = maxSeen[FeedOf(s)]]]
          /\ pc' = [pc EXCEPT ![s] = IF Len(doc) = 0 THEN "done" ELSE "select"]
    /\ feed_data' = [feed_data EXCEPT ![FeedOf(s)] = Row(FormatTime(now))]
    /\ UNCHANGED <<now, user_keywords, cpc, cycle, userKeywords,
                   dispatched, maxSeen, faults>>
    /\ UNCHANGED <<mvars, avars>>

\* parser.ParseURL succeeds; a document without items ends the fetch
ParseURL(s) ==
    /\ pc[s] = "fetch"
    /\ \E doc \in servedDocs(s) :
          /\ ps' = [ps EXCEPT ![s] =
                       IF Len(doc) = 0 THEN Returned(@, "empty")
                       ELSE [@ EXCEPT !.items = doc,
                                      !.seenBefore = maxSeen[FeedOf(s)]]]
          /\ pc' = [pc EXCEPT ![s] = IF Len(doc) = 0 THEN "done" ELSE "select"]
    /\ UNCHANGED <<now, feed_data, user_keywords, cpc, cycle, userKeywords,
                   dispatched, maxSeen, faults>>
    /\ UNCHANGED <<mvars, avars>>

\* getLastUpdateTime: the SELECT; a row is parsed, no row leads to the INSERT
SelectCursor(s) ==
    /\ pc[s] = "select"
    /\ LET row == feed_data[FeedOf(s)] IN
       IF row.exists
       THEN /\ ps' = [ps EXCEPT ![s].found = "row", ![s].stored = row,
                        ![s].lastUpdateTime = ParseTime(row.last_update_time)]
            /\ pc' = [pc EXCEPT ![s] = "loop"]
       ELSE /\ ps' = [ps EXCEPT ![s].found = "norow"]
            /\ pc' = [pc EXCEPT ![s] = "insert"]
    /\ UNCHANGED <<now, feed_data, user_keywords, cpc, cycle, userKeywords,
                   dispatched, maxSeen, faults>>
    /\ UNCHANGED <<mvars, avars>>

\* getLastUpdateTime: the SELECT fails; fetchRSS logs and uses the zero time
\* (the error is not returned to processSubscription)
SelectCursorFail(s) ==
    /\ faults < MaxFaults
    /\ faults' = faults + 1
    /\ pc[s] = "select"
    /\ ps' = [ps EXCEPT ![s].found = "err", ![s].lastUpdateTime = 0]
    /\ pc' = [pc EXCEPT ![s] = "loop"]
    /\ UNCHANGED <<now, feed_data, user_keywords, cpc, cycle, userKeywords,
                   dispatched, maxSeen>>
    /\ UNCHANGED <<mvars, avars>>

\* getLastUpdateTime on sql.ErrNoRows: INSERT a row dated time.Now(), return
\* the zero time and the INSERT's error (nil)
InsertCursor(s) ==
    /\ pc[s] = "insert"
    /\ \E t \in now..MaxClock :
          /\ now' = t
          /\ feed_data' = [feed_data EXCEPT
                             ![FeedOf(s)] = Row(FormatTime(t))]
    /\ ps' = [ps EXCEPT ![s].lastUpdateTime = 0]
    /\ pc' = [pc EXCEPT ![s] = "loop"]
    /\ UNCHANGED <<user_keywords, cpc, cycle, userKeywords, dispatched, maxSeen,
                   faults>>
    /\ UNCHANGED <<mvars, avars>>

\* the INSERT fails: fetchRSS logs and uses the zero time
InsertCursorFail(s) ==
    /\ faults < MaxFaults
    /\ faults' = faults + 1
    /\ pc[s] = "insert"
    /\ ps' = [ps EXCEPT ![s].found = "inserterr", ![s].lastUpdateTime = 0]
    /\ pc' = [pc EXCEPT ![s] = "loop"]
    /\ UNCHANGED <<now, feed_data, user_keywords, cpc, cycle, userKeywords,
                   dispatched, maxSeen>>
    /\ UNCHANGED <<mvars, avars>>

\* does an item of the document take its time from the clock?
needsClock(doc) ==
    \E i \in 1..Len(doc) :
        doc[i].PublishedParsed = <<>> /\ doc[i].UpdatedParsed = <<>>

\* an UPDATE without the WHERE clause: every row of the table is written
updateLastTime_everyRow(table, rssName, updateTime) ==
    [f \in DOMAIN table |->
        IF table[f].exists THEN Row(FormatTime(updateTime)) ELSE table[f]]

\* updateLastTime: UPDATE ... WHERE rss_name = ?, an unconditional overwrite
\* of the row (of nothing when there is no row)
updateLastTime(table, rssName, updateTime) ==
    IF table[rssName].exists
    THEN [table EXCEPT ![rssName] = Row(FormatTime(updateTime))]
    ELSE table

\* the rest of fetchRSS: the loop, the UPDATE when latestTime is not zero,
\* the return of the messages
fetchReturn(s, writeOk) ==
    /\ pc[s] = "loop"
    /\ ~writeOk => faults < MaxFaults
    /\ \E t \in (IF needsClock(ps[s].items) THEN now..MaxClock ELSE {now}) :
         LET acc == fetchLoop(ps[s].items, ps[s].lastUpdateTime, t,
                              [messages |-> <<>>, latestTime |-> 0])
         IN  /\ now' = t
             /\ acc.latestTime = 0 => writeOk
             /\ feed_data' =
                  IF acc.latestTime # 0 /\ writeOk
                  THEN updateLastTime(feed_data, FeedOf(s), acc.latestTime)
                  ELSE feed_data
             /\ ps' = [ps EXCEPT ![s].messages = acc.messages,
                                 ![s].clock = t,
                                 ![s].latestTime = acc.latestTime,
                                 ![s].updated =
                                     IF acc.latestTime = 0 THEN "no"
                                     ELSE IF writeOk THEN "ok" ELSE "failed"]
             /\ maxSeen' = [maxSeen EXCEPT
                              ![FeedOf(s)] = Max(@, acc.latestTime)]
             /\ pc' = [pc EXCEPT ![s] = "fetched"]
    /\ faults' = IF writeOk THEN faults ELSE faults + 1
    /\ UNCHANGED <<user_keywords, cpc, cycle, userKeywords, dispatched>>
    /\ UNCHANGED <<mvars, avars>>

FetchReturn(s) == fetchReturn(s, TRUE)

\* the UPDATE fails: updateLastTime logs, fetchRSS returns the messages
FetchReturnUpdateFail(s) == fetchReturn(s, FALSE)

\* processSubscription after fetchRSS returned: no new message, return
NoNewContent(s) ==
    /\ pc[s] = "fetched"
    /\ Len(ps[s].messages) = 0
    /\ ps' = [ps EXCEPT ![s] = Returned(@, "nonew")]
    /\ pc' = [pc EXCEPT ![s] = "done"]
    /\ UNCHANGED <<now, feed_data, user_keywords, cpc, cycle, userKeywords,
                   dispatched, maxSeen, faults>>
    /\ UNCHANGED <<mvars, avars>>

\* one pass of the inner loop of processSubscription: one message, one user
\* (the first pass follows the test len(messages) == 0)
PushStep(s) ==
    /\ pc[s] \in {"fetched", "push"}
    /\ Len(ps[s].messages) > 0
    /\ LET sub      == Sub(s)
           msg      == ps[s].messages[ps[s].mi]
           userID   == sub.Users[ps[s].ui]
           keywords == keywordsOf(userKeywords, userID)
           toUser   == SetToBag({Push(userID, s, msg.Title, "user")})
           toAdmin  == IF userID = ADMINIDS
                       THEN SetToBag({Push(ADMINIDS, s, msg.Title, "admin")})
                       ELSE EmptyBag
           lastUser == ps[s].ui = Len(sub.Users)
           lastMsg  == ps[s].mi = Len(ps[s].messages)
       IN  /\ dispatched' = IF isDeliveryEvent(msg, keywords)
                            THEN dispatched (+) toUser (+) toAdmin
                            ELSE dispatched
           /\ ps' = [ps EXCEPT ![s] =
                       IF lastUser /\ lastMsg THEN Returned(@, "pushed")
                       ELSE [@ EXCEPT !.ui = IF lastUser THEN 1 ELSE @ + 1,
                                      !.mi = IF lastUser THEN @ + 1 ELSE @]]
           /\ pc' = [pc EXCEPT ![s] = IF lastUser /\ lastMsg
                                      THEN "done" ELSE "push"]
    /\ UNCHANGED <<now, feed_data, user_keywords, cpc, cycle, userKeywords,
                   maxSeen, faults>>
    /\ UNCHANGED <<mvars, avars>>

\* ---- the sender goroutines (go sendHTMLMessage, go sendPhotoMessage,
\* go sendother): started by the processors, they return on their own

MaxAcks == 1             \* sender goroutines that return in one cycle

SendersIdle == [cycle |-> 0, returned |-> 0]

\* the senders started in the current cycle that have returned
returnedNow == IF sd.cycle = cycle THEN sd.returned ELSE 0

\* the senders started in the current cycle that have not returned
inFlight == BagCardinality(dispatched) - returnedNow

\* a sender goroutine returns: the Telegram call answered or failed
SenderReturns ==
    /\ inFlight > 0
    /\ returnedNow < MaxAcks
    /\ sd' = [cycle |-> cycle, returned |-> returnedNow + 1]
    /\ UNCHANGED <<mt, ht, dl, pf, rp, cvars, avars>>

\* a coordinator that also waits for the senders
FinishCycle_waitsForSenders ==
    /\ cpc = "waiting"
    /\ \A s \in SubIDs : pc[s] = "done"
    /\ inFlight = 0
    /\ cpc' = "idle"
    /\ UNCHANGED <<now, feed_data, user_keywords, cycle, userKeywords, pc, ps,
                   dispatched, maxSeen, faults>>
    /\ UNCHANGED <<mvars, avars>>

\* a coordinator that stops waiting as soon as one processor has returned
FinishCycle_firstDone ==
    /\ cpc = "waiting"
    /\ \E s \in SubIDs : pc[s] = "done"
    /\ cpc' = "idle"
    /\ UNCHANGED <<now, feed_data, user_keywords, cycle, userKeywords, pc, ps,
                   dispatched, maxSeen, faults>>
    /\ UNCHANGED <<mvars, avars>>

\* wg.Wait returns: every processor has returned
FinishCycle ==
    /\ cpc = "waiting"
    /\ \A s \in SubIDs : pc[s] = "done"
    /\ cpc' = "idle"
    /\ UNCHANGED <<now, feed_data, user_keywords, cycle, userKeywords, pc, ps,
                   dispatched, maxSeen, faults>>
    /\ UNCHANGED <<mvars, avars>>

-----------------------------------------------------------------------------
(* The AI request handlers: inputs and pure parts.                         *)

MaxRequests == 3         \* requests the callers issue
MaxAIFaults == 1         \* failing statements on the AI tables

\* the goroutines that call the handlers (one per subscription processor)
Callers == {"p1", "p2"}

T_hi    == <<"h", "i">>
T_hello == <<"h", "e", "l", "l", "o">>
T_en    == <<"e", "n">>
T_ja    == <<"j", "a">>
T_translate == <<"t","r","a","n","s","l","a","t","e">>
T_summarize == <<"s","u","m","m","a","r","i","z","e">>

AITexts == {T_hi, T_hello}

\* the arguments of HandleTranslateRequest and HandleSummarizeRequest
AIRequests ==
    {[op |-> "translate", text |-> T_hello, sourceLang |-> <<>>,
      targetLang |-> l, maxLength |-> 0, minLength |-> 0] : l \in {T_en, T_ja}}
    \cup
    {[op |-> "summarize", text |-> t, sourceLang |-> <<>>, targetLang |-> <<>>,
      maxLength |-> 5, minLength |-> 3] : t \in AITexts}

\* what a successful provider call can return: the text and Usage.TotalTokens
Replies == {[out |-> "r1", tokens |-> 1], [out |-> "r2", tokens |-> 2]}

\* AIError.Type
ErrorTypes == {"network", "api", "quota", "invalid_request"}

Digits == <<"0", "1", "2", "3", "4", "5", "6", "7", "8", "9">>

\* fmt.Sprintf("%d", n), n >= 0
RECURSIVE IntToStr(_)
IntToStr(n) ==
    IF n < 10 THEN <<Digits[n + 1]>>
    ELSE IntToStr(n \div 10) \o <<Digits[(n % 10) + 1]>>

RECURSIVE joinParams(_)
joinParams(params) ==
    IF params = <<>> THEN <<>>
    ELSE <<"|">> \o Head(params) \o joinParams(Tail(params))

\* generateContentHash: the text that is hashed, contentType|content|param...
\* MD5 is taken to be injective, so the digest is modelled by this text
generateContentHash(content, contentType, params) ==
    contentType \o <<"|">> \o content \o joinParams(params)

\* the hash the handler computes for a request
requestHash(r) ==
    IF r.op = "translate"
    THEN generateContentHash(r.text, T_translate, <<r.sourceLang, r.targetLang>>)
    ELSE generateContentHash(r.text, T_summarize,
             <<IntToStr(r.maxLength) \o <<"-">> \o IntToStr(r.minLength)>>)

\* a lookup that selects content_type = 'translate' for both operations
cacheLookup_translateOnly(table, contentHash, contentType) ==
    IF contentHash \in DOMAIN table /\ table[contentHash].content_type = "translate"
    THEN <<table[contentHash]>> ELSE <<>>

\* GetCachedTranslation / GetCachedSummary: SELECT ... WHERE content_hash = ?
\* AND content_type = ?; <<row>> when found, <<>> when not
cacheLookup(table, contentHash, contentType) ==
    IF contentHash \in DOMAIN table /\ table[contentHash].content_type = contentType
    THEN <<table[contentHash]>> ELSE <<>>

\* CacheTranslation / CacheSummary: INSERT OR REPLACE
cacheStore(table, contentHash, contentType, reply) ==
    [h \in DOMAIN table \cup {contentHash} |->
        IF h = contentHash
        THEN [content_type |-> contentType, processed_content |-> reply.out,
              tokens_used |-> reply.tokens]
        ELSE table[h]]

\* calculateCost, in millionths of a dollar: 0.002 $ per 1000 tokens
calculateCost(tokensUsed) == tokensUsed * 2

\* a provider that summarizes whatever the length of the text
summarizeRefuses_never(r) == FALSE

\* OpenAIAdapter.Summarize: len(text) < minLength is refused before any call
summarizeRefuses(r) == r.op = "summarize" /\ Len(r.text) < r.minLength

\* recordUsage, the UPDATE: every row of today gets the increment
usageUpdate(rows, operationType, tokensUsed) ==
    [i \in 1..Len(rows) |->
        [translate_count |-> rows[i].translate_count
                             + (IF operationType = "translate" THEN 1 ELSE 0),
         summarize_count |-> rows[i].summarize_count
                             + (IF operationType = "translate" THEN 0 ELSE 1),
         total_tokens    |-> rows[i].total_tokens + tokensUsed,
         total_cost      |-> rows[i].total_cost + calculateCost(tokensUsed)]]

\* recordUsage, the INSERT of the first row of the day
usageInsert(rows, operationType, tokensUsed) ==
    Append(rows,
        [translate_count |-> IF operationType = "translate" THEN 1 ELSE 0,
         summarize_count |-> IF operationType = "translate" THEN 0 ELSE 1,
         total_tokens    |-> tokensUsed,
         total_cost      |-> calculateCost(tokensUsed)])

NoRequest ==
    [op |-> "none", text |-> <<>>, sourceLang |-> <<>>, targetLang |-> <<>>,
     maxLength |-> 0, minLength |-> 0]

NoReply == [out |-> "none", tokens |-> 0]

\* a caller that has issued no request yet
IdleCaller ==
    [pc |-> "idle", req |-> NoRequest, hash |-> <<>>, after |-> FALSE,
     lookupFailed |-> FALSE, hit |-> FALSE, called |-> FALSE, err |-> "none",
     result |-> NoReply, cacheWrite |-> "no", count |-> 0, usage |-> "no"]

-----------------------------------------------------------------------------
(* SpecHash: the hashed text of pairs of requests.                         *)

\* the arguments of the handlers, with '|' in texts and languages
T_x    == <<"x">>
T_xbar == <<"x", "|">>
T_bar  == <<"|">>

HashRequests ==
    {[op |-> "translate", text |-> t, sourceLang |-> sl, targetLang |-> tl,
      maxLength |-> 0, minLength |-> 0] :
         t \in {T_x, T_xbar}, sl \in {<<>>, T_bar}, tl \in {T_en, T_ja}}
    \cup
    {[op |-> "summarize", text |-> t, sourceLang |-> <<>>, targetLang |-> <<>>,
      maxLength |-> mx, minLength |-> 1] : t \in {T_x, T_xbar}, mx \in {5, 20}}

HashIdle == [a |-> NoRequest, b |-> NoRequest, ha |-> <<>>, hb |-> <<>>,
             done |-> TRUE]

InitHash ==
    \E a, b \in HashRequests :
        ht = [a |-> a, b |-> b, ha |-> <<>>, hb |-> <<>>, done |-> FALSE]

\* contentHash := generateContentHash(...) in the two handler calls
HashRun ==
    /\ ~ht.done
    /\ ht' = [ht EXCEPT !.ha = requestHash(ht.a), !.hb = requestHash(ht.b),
                        !.done = TRUE]

-----------------------------------------------------------------------------
(* SpecDeliver: one delivery event of processSubscription, from the        *)
(* keyword match to the sender goroutines: the AI preferences,             *)
(* processMessageWithAI and sendProcessedMessage.  The texts hold no       *)
(* '<a href' tag and none of the marker texts of cleanHTMLContent; a       *)
(* marker is one element of the text while it stands in for a tag.         *)

MinAIContent == 50       \* len(content) < 50: no AI processing
OriginalCap  == 300      \* bytes of the original text formatAIEnhancedMessage shows
FormatCap    == 500      \* bytes of the original text FormatMessage shows

Whitespace == {" ", "\t", "\n", "\r"}      \* \s of package regexp

\* the index of the first c in text from index i on, 0 when there is none
indexFrom(text, c, i) ==
    IF \E j \in i..Len(text) : text[j] = c
    THEN CHOOSE j \in i..Len(text) :
            text[j] = c /\ \A k \in i..(j - 1) : text[k] # c
    ELSE 0

hasPrefixAt(text, i, lit) ==
    /\ i + Len(lit) - 1 <= Len(text)
    /\ \A k \in 1..Len(lit) : text[i + k - 1] = lit[k]

\* the first index from i on that holds no character of the class
skipWhile(text, i, class) ==
    CHOOSE j \in i..(Len(text) + 1) :
        /\ j = Len(text) + 1 \/ text[j] \notin class
        /\ \A k \in i..(j - 1) : text[k] \in class

Str_img == <<"<", "i", "m", "g">>
Str_br  == <<"<", "b", "r">>

RE_img      == [re |-> "img", lit |-> <<>>]     \* <img[^>]*>
RE_br       == [re |-> "br",  lit |-> <<>>]     \* <br\s*\/?>
RE_allTags  == [re |-> "tag", lit |-> <<>>]     \* <[^>]*>
RE_newlines == [re |-> "nl3", lit |-> <<>>]     \* \n{3,}
RE_lit(lit) == [re |-> "lit", lit |-> lit]      \* a literal text

\* the index of the last character of the match of re that starts at i,
\* 0 when none starts there
matchEnd(re, text, i) ==
    CASE re.re = "img" ->
            IF hasPrefixAt(text, i, Str_img) THEN indexFrom(text, ">", i + 4)
            ELSE 0
      [] re.re = "br" ->
            IF ~hasPrefixAt(text, i, Str_br) THEN 0
            ELSE LET j == skipWhile(text, i + 3, Whitespace)
                     k == IF j <= Len(text) /\ text[j] = "/" THEN j + 1 ELSE j
                 IN  IF k <= Len(text) /\ text[k] = ">" THEN k ELSE 0
      [] re.re = "tag" ->
            IF text[i] = "<" THEN indexFrom(text, ">", i + 1) ELSE 0
      [] re.re = "nl3" ->
            IF hasPrefixAt(text, i, <<"\n", "\n", "\n">>)
            THEN skipWhile(text, i, {"\n"}) - 1
            ELSE 0
      [] OTHER ->
            IF hasPrefixAt(text, i, re.lit) THEN i + Len(re.lit) - 1 ELSE 0

\* Regexp.ReplaceAllString: the matches from left to right, none overlapping
RECURSIVE ReplaceAllString(_, _, _)
ReplaceAllString(text, re, repl) ==
    LET first  == IF re.re = "nl3" THEN "\n"
                  ELSE IF re.re = "lit" THEN re.lit[1] ELSE "<"
        starts == {i \in 1..Len(text) :
                      text[i] = first /\ matchEnd(re, text, i) > 0}
    IN  IF text = <<>> \/ starts = {} THEN text
        ELSE LET i == CHOOSE i \in starts : \A k \in starts : i <= k
                 j == matchEnd(re, text, i)
             IN  SubSeq(text, 1, i - 1) \o repl
                   \o ReplaceAllString(SubSeq(text, j + 1, Len(text)), re, repl)

\* the tags Telegram supports and the markers that stand in for them, in
\* the order cleanHTMLContent replaces them
SupportedTags ==
    << [tag |-> <<"<","b",">">>,                 mark |-> "MARK_B"],
       [tag |-> <<"<","/","b",">">>,             mark |-> "MARK_/B"],
       [tag |-> <<"<","i",">">>,                 mark |-> "MARK_I"],
       [tag |-> <<"<","/","i",">">>,             mark |-> "MARK_/I"],
       [tag |-> <<"<","u",">">>,                 mark |-> "MARK_U"],
       [tag |-> <<"<","/","u",">">>,             mark |-> "MARK_/U"],
       [tag |-> <<"<","s",">">>,                 mark |-> "MARK_S"],
       [tag |-> <<"<","/","s",">">>,             mark |-> "MARK_/S"],
       [tag |-> <<"<","c","o","d","e",">">>,     mark |-> "MARK_CODE"],
       [tag |-> <<"<","/","c","o","d","e",">">>, mark |-> "MARK_/CODE"],
       [tag |-> <<"<","p","r","e",">">>,         mark |-> "MARK_PRE"],
       [tag |-> <<"<","/","p","r","e",">">>,     mark |-> "MARK_/PRE"],
       [tag |-> <<"<","/","a",">">>,             mark |-> "MARK_/A"] >>

RECURSIVE markTags(_, _)
markTags(content, n) ==
    IF n > Len(SupportedTags) THEN content
    ELSE markTags(ReplaceAllString(content, RE_lit(SupportedTags[n].tag),
                                   <<SupportedTags[n].mark>>), n + 1)

RECURSIVE restoreTags(_, _)
restoreTags(content, n) ==
    IF n > Len(SupportedTags) THEN content
    ELSE restoreTags(ReplaceAllString(content, RE_lit(<<SupportedTags[n].mark>>),
                                      SupportedTags[n].tag), n + 1)

cleanHTMLContent(htmlContent) ==
    LET noImg    == ReplaceAllString(htmlContent, RE_img, <<>>)
        breaks   == ReplaceAllString(noImg, RE_br, <<"\n">>)
        marked   == markTags(breaks, 1)
        stripped == ReplaceAllString(marked, RE_allTags, <<>>)
        restored == restoreTags(stripped, 1)
    IN  ReplaceAllString(restored, RE_newlines, <<"\n", "\n">>)

\* ---- the processed message and its renderings

T_translated == <<"T", "T">>          \* TranslateResult.TranslatedText
T_summary    == <<"S">>               \* SummaryResult.SummaryText
T_link       == <<"u">>               \* msg.Link of the messages below

\* &ProcessedMessage{Original: &msg, HasAI: false}; nil results are <<>>
PlainMessage(msg) ==
    [Original |-> msg, Translated |-> <<>>, Summary |-> <<>>, HasAI |-> FALSE]

\* the labels the renderings write, each one element of the rendered text
L_source      == "(source) "
L_date        == "(date) "
L_translation == "(translation) <b>translation</b>:\n"
L_summary     == "(summary) <b>summary</b>:\n"
L_original    == "(original) <b>original</b>:\n"
L_title       == "(title) "
L_keywords    == "\n(keywords) keywords: "
L_linkdate    == "\n(date) "
L_linktrans   == "\n(translation) translation: "
L_linksum     == "\n(summary) summary: "
L_link        == "\n(link) "

\* msg.PubDate in CST as "2006-01-02 15:04:05": one element, the layout is
\* not modelled
formattedDateOf(msg) == <<"DATE">>

\* strings.Join of "<code>kw</code>" over the matched keywords
RECURSIVE formatKeywords(_)
formatKeywords(matchedKeywords) ==
    IF matchedKeywords = <<>> THEN <<>>
    ELSE LET code == <<"<code>">> \o Head(matchedKeywords) \o <<"</code>">>
         IN  IF Len(matchedKeywords) = 1 THEN code
             ELSE code \o <<" ">> \o formatKeywords(Tail(matchedKeywords))

\* the header "(source) name: keywords\n(date) date\n"
messageHeader(sourceName, formattedKeywords, formattedDate) ==
    <<L_source, sourceName, ":", " ">> \o formattedKeywords
        \o <<"\n", L_date>> \o formattedDate \o <<"\n">>

\* the original text shown whole, whatever its length
capText_uncapped(originalText, n) == originalText

\* originalText[:n] + "..." when len(originalText) > n
capText(originalText, n) ==
    IF Len(originalText) > n
    THEN SubSeq(originalText, 1, n) \o <<".", ".", ".">>
    ELSE originalText

formatAIEnhancedMessage(sourceName, formattedKeywords, formattedDate, processedMsg) ==
    messageHeader(sourceName, formattedKeywords, formattedDate) \o <<"\n">>
    \o (IF processedMsg.Translated # <<>>
        THEN <<L_translation>> \o processedMsg.Translated[1] \o <<"\n", "\n">>
        ELSE <<>>)
    \o (IF processedMsg.Summary # <<>>
        THEN <<L_summary>> \o processedMsg.Summary[1] \o <<"\n", "\n">>
        ELSE <<>>)
    \o (IF processedMsg.HasAI /\ processedMsg.Original.Description # <<>>
        THEN <<L_original>>
               \o capText(cleanHTMLContent(processedMsg.Original.Description),
                          OriginalCap)
               \o <<"\n">>
        ELSE IF ~processedMsg.HasAI
        THEN cleanHTMLContent(processedMsg.Original.Description) \o <<"\n">>
        ELSE <<>>)

\* htmlMessage of sendProcessedMessage
htmlMessageOf(sub, processedMsg, formattedKeywords) ==
    LET msg           == processedMsg.Original
        formattedDate == formattedDateOf(msg)
    IN  IF sub.Channel = 1
        THEN IF processedMsg.HasAI
             THEN formatAIEnhancedMessage(sub.Name, formattedKeywords,
                                          formattedDate, processedMsg)
             ELSE messageHeader(sub.Name, formattedKeywords, formattedDate)
                    \o cleanHTMLContent(msg.Description) \o <<"\n">>
        ELSE <<L_title>> \o msg.Title \o <<L_keywords>> \o formattedKeywords
               \o <<L_linkdate>> \o formattedDate
               \o (IF processedMsg.HasAI /\ processedMsg.Translated # <<>>
                   THEN <<L_linktrans>> \o processedMsg.Translated[1] ELSE <<>>)
               \o (IF processedMsg.HasAI /\ processedMsg.Summary # <<>>
                   THEN <<L_linksum>> \o processedMsg.Summary[1] ELSE <<>>)
               \o <<L_link>> \o T_link

\* otherpush of processSubscription: the copy for the administrator
otherpushOf(sub, msg) ==
    IF sub.Channel = 1
    THEN <<L_source, sub.Name, "\n", L_date>> \o formattedDateOf(msg) \o <<"\n">>
           \o cleanHTMLContent(msg.Description)
    ELSE <<L_title>> \o msg.Title \o <<L_linkdate>> \o formattedDateOf(msg)
           \o <<L_link>> \o T_link

\* ProcessedMessage.FormatMessage
FormatMessage(pm) ==
    (IF pm.Original.Title # <<>>
     THEN <<L_title>> \o pm.Original.Title \o <<"\n", "\n">> ELSE <<>>)
    \o (IF pm.Original.Description # <<>> /\ ~pm.HasAI
        THEN pm.Original.Description \o <<"\n", "\n">> ELSE <<>>)
    \o (IF pm.HasAI
        THEN (IF pm.Translated # <<>>
              THEN <<L_translation>> \o pm.Translated[1] \o <<"\n", "\n">>
              ELSE <<>>)
             \o (IF pm.Summary # <<>>
                 THEN <<L_summary>> \o pm.Summary[1] \o <<"\n", "\n">>
                 ELSE <<>>)
             \o (IF pm.Original.Description # <<>>
                 THEN <<L_original>> \o capText(pm.Original.Description, FormatCap)
                        \o <<"\n", "\n">>
                 ELSE <<>>)
        ELSE <<>>)
    \o <<L_link>> \o T_link

\* ---- the inputs of a delivery event

Xs(n) == [i \in 1..n |-> "x"]

\* descriptions around the two length limits, with and without tags
DeliverMessages ==
    { Message(T_a, Xs(MinAIContent - 3), 0),
      Message(T_a, Xs(MinAIContent - 2), 0),
      Message(T_a, <<"<","p",">">> \o Xs(MinAIContent - 3) \o <<"<","b","r","/",">">>, 0),
      Message(T_a, <<"<","p",">">> \o Xs(MinAIContent - 3) \o <<"<","/","p",">">>, 0),
      Message(T_a, <<"<","b",">">> \o Xs(MinAIContent) \o <<"<","/","b",">">>
                     \o <<"<","i","m","g"," ","s",">">>, 0),
      Message(T_a, Xs(OriginalCap), 0),
      Message(T_a, Xs(OriginalCap + 1), 0),
      Message(T_a, Xs(FormatCap + 1), 0),
      Message(Xs(MinAIContent), <<>>, 0) }

T_openai == <<"o","p","e","n","a","i">>
T_OpenAI == <<"O","p","e","n","A","I">>
T_claude == <<"c","l","a","u","d","e">>

\* globalConfig.AI: absent (nil), disabled, or enabled with a provider name
AIConfigs ==
    { [configured |-> FALSE, Enabled |-> FALSE, Provider |-> <<>>],
      [configured |-> TRUE,  Enabled |-> FALSE, Provider |-> T_openai],
      [configured |-> TRUE,  Enabled |-> TRUE,  Provider |-> T_claude],
      [configured |-> TRUE,  Enabled |-> TRUE,  Provider |-> T_OpenAI] }

\* a service for every provider name
initializeAIService_anyProvider(ai) ==
    IF ~ai.configured \/ ~ai.Enabled THEN <<>> ELSE <<ToLower(ai.Provider)>>

\* initializeAIService: nil (<<>>) without an enabled configuration and for
\* a provider other than "openai"
initializeAIService(ai) ==
    IF ~ai.configured \/ ~ai.Enabled THEN <<>>
    ELSE IF ToLower(ai.Provider) = T_openai THEN <<T_openai>>
    ELSE <<>>

\* aiHandler != nil in processSubscription
hasAIHandler(ai) ==
    ai.configured /\ ai.Enabled /\ initializeAIService(ai) # <<>>

\* the row of the user in user_ai_preferences: <<>> when there is none
PreferenceRows ==
    {<<>>} \cup {<<[AutoTranslate |-> t, AutoSummarize |-> s]>> :
                    t, s \in BOOLEAN}

\* the preferences of a user without a row, and after a failed query
DefaultPreferences == [AutoTranslate |-> FALSE, AutoSummarize |-> FALSE]

DeliverIdle ==
    [pc |-> "idle", userID |-> ADMINIDS, sub |-> subscriptions[1],
     matchedKeywords |-> <<>>,
     AI |-> [configured |-> FALSE, Enabled |-> FALSE, Provider |-> <<>>],
     aiHandler |-> FALSE, prefsErr |-> FALSE,
     Translation |-> FALSE, Summarization |-> FALSE, row |-> <<>>,
     userPrefs |-> DefaultPreferences, content |-> <<>>,
     processedMsg |-> PlainMessage(Message(<<>>, <<>>, 0)),
     translate |-> "no", summarize |-> "no", sent |-> <<>>]

\* a message of the subscription matched a keyword of the user
InitDeliver ==
    \E msg \in DeliverMessages, u \in Users, i \in 1..Len(subscriptions),
       ai \in AIConfigs, ft, fs \in BOOLEAN, row \in PreferenceRows :
        dl = [DeliverIdle EXCEPT
                !.pc = "prefs", !.userID = u, !.sub = subscriptions[i],
                !.matchedKeywords = <<T_a>>, !.AI = ai,
                !.aiHandler = hasAIHandler(ai),
                !.Translation = ft, !.Summarization = fs, !.row = row,
                !.processedMsg = PlainMessage(msg)]

\* aiHandler == nil: the original message
NoAIHandler ==
    /\ dl.pc = "prefs"
    /\ ~dl.aiHandler
    /\ dl' = [dl EXCEPT !.pc = "send"]

\* GetUserAIPreferences answers: the row, or the defaults when there is
\* none; processMessageWithAI is called when a preference is on
GetPreferences ==
    /\ dl.pc = "prefs"
    /\ dl.aiHandler
    /\ LET userPrefs == IF dl.row = <<>> THEN DefaultPreferences ELSE dl.row[1]
       IN  dl' = [dl EXCEPT
                    !.userPrefs = userPrefs,
                    !.pc = IF userPrefs.AutoTranslate \/ userPrefs.AutoSummarize
                           THEN "ai" ELSE "send"]

\* a failed lookup of the preferences that ends the delivery event
GetPreferencesFail_dropsEvent ==
    /\ dl.pc = "prefs"
    /\ dl.aiHandler
    /\ dl' = [dl EXCEPT !.userPrefs = DefaultPreferences, !.prefsErr = TRUE,
                        !.pc = "done"]

\* GetUserAIPreferences fails: the default preferences, no AI processing
GetPreferencesFail ==
    /\ dl.pc = "prefs"
    /\ dl.aiHandler
    /\ dl' = [dl EXCEPT !.userPrefs = DefaultPreferences, !.prefsErr = TRUE,
                        !.pc = "send"]

\* a length test on the text as the feed gives it, markup included
PrepareContent_rawLength ==
    /\ dl.pc = "ai"
    /\ LET msg     == dl.processedMsg.Original
           content == cleanHTMLContent(msg.Title \o <<" ">> \o msg.Description)
       IN  dl' = [dl EXCEPT
                    !.content = content,
                    !.pc = IF Len(msg.Title \o <<" ">> \o msg.Description)
                                < MinAIContent
                           THEN "send" ELSE "translate"]

\* processMessageWithAI up to the length test
PrepareContent ==
    /\ dl.pc = "ai"
    /\ LET msg     == dl.processedMsg.Original
           content == cleanHTMLContent(msg.Title \o <<" ">> \o msg.Description)
       IN  dl' = [dl EXCEPT
                    !.content = content,
                    !.pc = IF Len(content) < MinAIContent THEN "send"
                           ELSE "translate"]

\* a translation whose failure ends the delivery event without a message
TranslateStep_abortsOnError ==
    /\ dl.pc = "translate"
    /\ IF dl.userPrefs.AutoTranslate /\ dl.Translation
       THEN \/ dl' = [dl EXCEPT !.processedMsg.Translated = <<T_translated>>,
                                !.translate = "ok", !.pc = "summarize"]
            \/ dl' = [dl EXCEPT !.translate = "err", !.pc = "done"]
       ELSE dl' = [dl EXCEPT !.pc = "summarize"]

\* the translation of processMessageWithAI: skipped, answered or failed
TranslateStep ==
    /\ dl.pc = "translate"
    /\ IF dl.userPrefs.AutoTranslate /\ dl.Translation
       THEN \/ dl' = [dl EXCEPT !.processedMsg.Translated = <<T_translated>>,
                                !.translate = "ok", !.pc = "summarize"]
            \/ dl' = [dl EXCEPT !.translate = "err", !.pc = "summarize"]
       ELSE dl' = [dl EXCEPT !.pc = "summarize"]

\* the summary of processMessageWithAI, and its return
SummarizeStep ==
    /\ dl.pc = "summarize"
    /\ IF dl.userPrefs.AutoSummarize /\ dl.Summarization
       THEN \/ dl' = [dl EXCEPT !.processedMsg.Summary = <<T_summary>>,
                                !.processedMsg.HasAI = TRUE,
                                !.summarize = "ok", !.pc = "send"]
            \/ dl' = [dl EXCEPT !.processedMsg.HasAI = (dl.translate = "ok"),
                                !.summarize = "err", !.pc = "send"]
       ELSE dl' = [dl EXCEPT !.processedMsg.HasAI = (dl.translate = "ok"),
                             !.pc = "send"]

\* a notification handed to a sender goroutine, with its text
Notification(to, kind, text) == [to |-> to, kind |-> kind, text |-> text]

\* sendProcessedMessage, then the copy for the administrator when the
\* subscriber is the administrator
SendStep ==
    /\ dl.pc = "send"
    /\ LET formattedKeywords == formatKeywords(dl.matchedKeywords)
           htmlMessage == htmlMessageOf(dl.sub, dl.processedMsg, formattedKeywords)
           user  == <<Notification(dl.userID, "user", htmlMessage)>>
           admin == IF dl.userID = ADMINIDS
                    THEN <<Notification(ADMINIDS, "admin",
                             otherpushOf(dl.sub, dl.processedMsg.Original))>>
                    ELSE <<>>
       IN  dl' = [dl EXCEPT !.sent = dl.sent \o user \o admin, !.pc = "done"]

-----------------------------------------------------------------------------
(* The AI request handlers: actions.  HandleTranslateRequest and           *)
(* HandleSummarizeRequest have the same shape; a step is one SQL statement *)
(* or the provider call.                                                   *)

\* a caller enters a handler: the hash is computed
BeginRequest(p) ==
    /\ rq[p].pc \in {"idle", "done"}
    /\ nreq < MaxRequests
    /\ \E r \in AIRequests :
          rq' = [rq EXCEPT ![p] =
                    [IdleCaller EXCEPT !.pc = "lookup", !.req = r,
                                       !.hash = requestHash(r),
                                       !.after = requestHash(r) \in servedKeys]]
    /\ nreq' = nreq + 1
    /\ UNCHANGED <<ai_processing_records, ai_usage_stats, aiFaults, paidCalls,
                   servedKeys>>
    /\ UNCHANGED <<mvars, cvars>>

\* h.cache.GetCachedTranslation / GetCachedSummary: a hit returns the cached
\* result at once; a failed query counts as not found
CacheLookup(p) ==
    /\ rq[p].pc = "lookup"
    /\ \E queryOk \in BOOLEAN :
         LET found == IF queryOk
                      THEN cacheLookup(ai_processing_records, rq[p].hash,
                                       rq[p].req.op)
                      ELSE <<>>
         IN  /\ ~queryOk => /\ rq[p].hash \in DOMAIN ai_processing_records
                             /\ aiFaults < MaxAIFaults
             /\ aiFaults' = IF queryOk THEN aiFaults ELSE aiFaults + 1
             /\ rq' = [rq EXCEPT ![p] =
                    IF found # <<>>
                    THEN [@ EXCEPT !.pc = "done", !.hit = TRUE,
                            !.result = [out |-> found[1].processed_content,
                                        tokens |-> found[1].tokens_used]]
                    ELSE [@ EXCEPT !.pc = "provider",
                                   !.lookupFailed = ~queryOk]]
    /\ UNCHANGED <<ai_processing_records, ai_usage_stats, nreq, paidCalls,
                   servedKeys>>
    /\ UNCHANGED <<mvars, cvars>>

\* h.service.Translate / Summarize succeeds
ProviderCall(p) ==
    /\ rq[p].pc = "provider"
    /\ ~summarizeRefuses(rq[p].req)
    /\ \E reply \in Replies :
          /\ rq' = [rq EXCEPT ![p].pc = "cache", ![p].called = TRUE,
                              ![p].result = reply]
          /\ paidCalls' = paidCalls (+) SetToBag({<<rq[p].hash, reply.out>>})
    /\ UNCHANGED <<ai_processing_records, ai_usage_stats, nreq, aiFaults,
                   servedKeys>>
    /\ UNCHANGED <<mvars, cvars>>

\* a handler that counts the failed call in the usage of the day
ProviderFail_countsUsage(p) ==
    /\ rq[p].pc = "provider"
    /\ \E e \in ErrorTypes :
          /\ summarizeRefuses(rq[p].req) => e = "invalid_request"
          /\ rq' = [rq EXCEPT ![p].pc = "done", ![p].err = e]
    /\ ai_usage_stats' = IF ai_usage_stats = <<>>
                         THEN usageInsert(ai_usage_stats, rq[p].req.op, 0)
                         ELSE usageUpdate(ai_usage_stats, rq[p].req.op, 0)
    /\ UNCHANGED <<ai_processing_records, nreq, aiFaults, paidCalls, servedKeys>>
    /\ UNCHANGED <<mvars, cvars>>

\* h.service.Translate / Summarize fails (a time-out is a network error):
\* the handler returns the error
ProviderFail(p) ==
    /\ rq[p].pc = "provider"
    /\ \E e \in ErrorTypes :
          /\ summarizeRefuses(rq[p].req) => e = "invalid_request"
          /\ rq' = [rq EXCEPT ![p].pc = "done", ![p].err = e]
    /\ UNCHANGED <<ai_processing_records, ai_usage_stats, nreq, aiFaults,
                   paidCalls, servedKeys>>
    /\ UNCHANGED <<mvars, cvars>>

\* a handler that returns the error of the cache write
CacheWrite_returnsError(p) ==
    /\ rq[p].pc = "cache"
    /\ \E execOk \in BOOLEAN :
          /\ ~execOk => aiFaults < MaxAIFaults
          /\ aiFaults' = IF execOk THEN aiFaults ELSE aiFaults + 1
          /\ ai_processing_records' =
                IF execOk
                THEN cacheStore(ai_processing_records, rq[p].hash,
                                rq[p].req.op, rq[p].result)
                ELSE ai_processing_records
          /\ rq' = [rq EXCEPT ![p] =
                      IF execOk
                      THEN [@ EXCEPT !.pc = "usageSelect", !.cacheWrite = "ok"]
                      ELSE [@ EXCEPT !.pc = "done", !.cacheWrite = "failed",
                                     !.err = "api", !.result = NoReply]]
    /\ UNCHANGED <<ai_usage_stats, nreq, paidCalls, servedKeys>>
    /\ UNCHANGED <<mvars, cvars>>

\* h.cache.CacheTranslation / CacheSummary; a failure is only logged
CacheWrite(p) ==
    /\ rq[p].pc = "cache"
    /\ \E execOk \in BOOLEAN :
          /\ ~execOk => aiFaults < MaxAIFaults
          /\ aiFaults' = IF execOk THEN aiFaults ELSE aiFaults + 1
          /\ ai_processing_records' =
                IF execOk
                THEN cacheStore(ai_processing_records, rq[p].hash,
                                rq[p].req.op, rq[p].result)
                ELSE ai_processing_records
          /\ rq' = [rq EXCEPT ![p].pc = "usageSelect",
                      ![p].cacheWrite = IF execOk THEN "ok" ELSE "failed"]
    /\ UNCHANGED <<ai_usage_stats, nreq, paidCalls, servedKeys>>
    /\ UNCHANGED <<mvars, cvars>>

\* the keys served so far, after caller p returns its result
servedAfter(p) ==
    IF rq[p].cacheWrite = "ok" THEN servedKeys \cup {rq[p].hash} ELSE servedKeys

\* recordUsage: SELECT COUNT(*) ... WHERE date = today; a failure is logged
\* and the handler returns the result
UsageSelect(p) ==
    /\ rq[p].pc = "usageSelect"
    /\ \E queryOk \in BOOLEAN :
          IF queryOk
          THEN /\ rq' = [rq EXCEPT ![p].pc = "usageWrite",
                                   ![p].count = Len(ai_usage_stats)]
               /\ UNCHANGED <<servedKeys, aiFaults>>
          ELSE /\ aiFaults < MaxAIFaults
               /\ aiFaults' = aiFaults + 1
               /\ rq' = [rq EXCEPT ![p].pc = "done", ![p].usage = "failed"]
               /\ servedKeys' = servedAfter(p)
    /\ UNCHANGED <<ai_processing_records, ai_usage_stats, nreq, paidCalls>>
    /\ UNCHANGED <<mvars, cvars>>

\* recordUsage: UPDATE when the count was positive, else INSERT; then the
\* handler returns the result
UsageWrite(p) ==
    /\ rq[p].pc = "usageWrite"
    /\ \E execOk \in BOOLEAN :
          /\ ~execOk => aiFaults < MaxAIFaults
          /\ aiFaults' = IF execOk THEN aiFaults ELSE aiFaults + 1
          /\ ai_usage_stats' =
                IF ~execOk THEN ai_usage_stats
                ELSE IF rq[p].count > 0
                THEN usageUpdate(ai_usage_stats, rq[p].req.op, rq[p].result.tokens)
                ELSE usageInsert(ai_usage_stats, rq[p].req.op, rq[p].result.tokens)
          /\ rq' = [rq EXCEPT ![p].pc = "done", ![p].count = 0,
                      ![p].usage = IF execOk THEN "ok" ELSE "failed"]
    /\ servedKeys' = servedAfter(p)
    /\ UNCHANGED <<ai_processing_records, nreq, paidCalls>>
    /\ UNCHANGED <<mvars, cvars>>

-----------------------------------------------------------------------------
(* The specifications.                                                     *)

EmptyTable == [x \in {} |-> x]

CycleIdle ==
    /\ now = 1
    /\ feed_data = [f \in FeedNames |-> NoRow]
    /\ cpc = "idle"
    /\ cycle = 0
    /\ userKeywords = EmptyTable
    /\ pc = [s \in SubIDs |-> "idle"]
    /\ ps = [s \in SubIDs |-> FreshLocals]
    /\ dispatched = EmptyBag
    /\ maxSeen = [f \in FeedNames |-> 0]
    /\ faults = 0

AIIdle ==
    /\ ai_processing_records = EmptyTable
    /\ ai_usage_stats = <<>>
    /\ rq = [p \in Callers |-> IdleCaller]
    /\ nreq = 0
    /\ aiFaults = 0
    /\ paidCalls = EmptyBag
    /\ servedKeys = {}

-----------------------------------------------------------------------------
(* SpecPrefs: table user_ai_preferences with its writer                    *)
(* UpdateUserAIPreferences and its reader GetUserAIPreferences.  The       *)
(* columns created_at and updated_at are left out.  The writer runs its    *)
(* two statements one call after the other; readers run at any time.       *)

MaxUpdates    == 2       \* calls of UpdateUserAIPreferences
MaxPrefFaults == 1       \* failing statements on user_ai_preferences

T_zhCN == <<"z", "h", "-", "C", "N">>

DefaultSummaryLength == 200

\* struct UserAIPreferences
UserAIPreferences(u, t, s, lang, n) ==
    [UserID |-> u, AutoTranslate |-> t, AutoSummarize |-> s,
     PreferredLang |-> lang, MaxSummaryLength |-> n]

\* the values the callers pass to UpdateUserAIPreferences
PreferenceArgs ==
    {UserAIPreferences(u, t, s, ln[1], ln[2]) :
        u \in Users, t, s \in BOOLEAN,
        ln \in {<<T_en, 100>>, <<T_en, DefaultSummaryLength>>, <<T_zhCN, 100>>}}

\* what GetUserAIPreferences returns for a user without a row
defaultPreferencesOf(userID) ==
    UserAIPreferences(userID, FALSE, FALSE, T_zhCN, DefaultSummaryLength)

\* the rows WHERE user_id = ?, in table order
rowsOfUser(rows, userID) ==
    SelectSeq(rows, LAMBDA r : r.UserID = userID)

\* UPDATE user_ai_preferences SET ... WHERE user_id = ?
prefsUpdate(rows, p) ==
    [i \in 1..Len(rows) |-> IF rows[i].UserID = p.UserID THEN p ELSE rows[i]]

\* INSERT INTO user_ai_preferences
prefsInsert(rows, p) == Append(rows, p)

NoWrite == [UserID |-> 0]

PrefsIdle ==
    [user_ai_preferences |-> <<>>,
     pc |-> "idle", preferences |-> defaultPreferencesOf(1), count |-> 0,
     updateErr |-> "none",
     lastWrite |-> [u \in Users |-> NoWrite], replaced |-> [u \in Users |-> FALSE],
     got |-> [err |-> "none", userID |-> 0, preferences |-> defaultPreferencesOf(1),
              lastWrite |-> NoWrite, replaced |-> FALSE],
     updates |-> 0, faults |-> 0]

\* UpdateUserAIPreferences, first statement: SELECT COUNT(*)
UpdateSelect(p) ==
    /\ pf.pc = "idle"
    /\ pf.updates < MaxUpdates
    /\ pf' = [pf EXCEPT
                !.pc = "selected", !.preferences = p,
                !.count = Len(rowsOfUser(pf.user_ai_preferences, p.UserID)),
                !.updateErr = "none", !.updates = @ + 1]
    /\ UNCHANGED <<mt, ht, dl, sd, rp, cvars, avars>>

\* the SELECT COUNT(*) fails: the error is returned, nothing is written
UpdateSelectFail(p) ==
    /\ pf.pc = "idle"
    /\ pf.updates < MaxUpdates
    /\ pf.faults < MaxPrefFaults
    /\ pf' = [pf EXCEPT
                !.preferences = p, !.updateErr = "err",
                !.updates = @ + 1, !.faults = @ + 1]
    /\ UNCHANGED <<mt, ht, dl, sd, rp, cvars, avars>>

\* a writer that inserts a row whether or not the user has one
UpdateWrite_alwaysInserts ==
    /\ pf.pc = "selected"
    /\ LET p == pf.preferences
       IN  pf' = [pf EXCEPT
                    !.user_ai_preferences = prefsInsert(@, p),
                    !.pc = "idle", !.updateErr = "nil",
                    !.lastWrite[p.UserID] = p,
                    !.replaced[p.UserID] = (pf.count > 0)]
    /\ UNCHANGED <<mt, ht, dl, sd, rp, cvars, avars>>

\* UpdateUserAIPreferences, second statement: UPDATE when the count is
\* positive, INSERT otherwise; the call returns nil
UpdateWrite ==
    /\ pf.pc = "selected"
    /\ LET p == pf.preferences
       IN  pf' = [pf EXCEPT
                    !.user_ai_preferences = IF pf.count > 0 THEN prefsUpdate(@, p)
                                            ELSE prefsInsert(@, p),
                    !.pc = "idle", !.updateErr = "nil",
                    !.lastWrite[p.UserID] = p,
                    !.replaced[p.UserID] = (pf.count > 0)]
    /\ UNCHANGED <<mt, ht, dl, sd, rp, cvars, avars>>

\* the UPDATE or INSERT fails: the error is returned, the table is as before
UpdateWriteFail ==
    /\ pf.pc = "selected"
    /\ pf.faults < MaxPrefFaults
    /\ pf' = [pf EXCEPT !.pc = "idle", !.updateErr = "err", !.faults = @ + 1]
    /\ UNCHANGED <<mt, ht, dl, sd, rp, cvars, avars>>

\* GetUserAIPreferences: the first row of the user, the defaults on
\* sql.ErrNoRows
GetUserAIPreferences(userID) ==
    /\ LET rows == rowsOfUser(pf.user_ai_preferences, userID)
       IN  pf' = [pf EXCEPT
                    !.got = [err |-> "nil", userID |-> userID,
                             preferences |-> IF rows = <<>>
                                             THEN defaultPreferencesOf(userID)
                                             ELSE rows[1],
                             lastWrite |-> pf.lastWrite[userID],
                             replaced |-> pf.replaced[userID]]]
    /\ UNCHANGED <<mt, ht, dl, sd, rp, cvars, avars>>

\* GetUserAIPreferences when the query fails: nil and the error
GetUserAIPreferencesFail(userID) ==
    /\ pf.faults < MaxPrefFaults
    /\ pf' = [pf EXCEPT
                !.got = [err |-> "err", userID |-> userID,
                         preferences |-> defaultPreferencesOf(userID),
                         lastWrite |-> pf.lastWrite[userID],
                         replaced |-> pf.replaced[userID]],
                !.faults = @ + 1]
    /\ UNCHANGED <<mt, ht, dl, sd, rp, cvars, avars>>

-----------------------------------------------------------------------------
(* The initial states and the specifications.                              *)

\* the check cycle on an empty feed_data table
Init ==
    /\ CycleIdle
    /\ user_keywords \in KeywordTables
    /\ mt = MatchIdle
    /\ ht = HashIdle
    /\ dl = DeliverIdle
    /\ sd = SendersIdle
    /\ pf = PrefsIdle
    /\ rp = AnyDocument
    /\ AIIdle

Next ==
    \/ StartCycle
    \/ LoadFail
    \/ FinishCycle
    \/ \E s \in SubIDs :
          \/ ParseURL(s)
          \/ ParseURLFail(s)
          \/ SelectCursor(s)
          \/ SelectCursorFail(s)
          \/ InsertCursor(s)
          \/ InsertCursorFail(s)
          \/ FetchReturn(s)
          \/ FetchReturnUpdateFail(s)
          \/ NoNewContent(s)
          \/ PushStep(s)

Spec == Init /\ [][Next]_vars

\* the check cycle with the scheduling of the coordinator: wg.Wait returns
\* once every processor has called wg.Done.  Nothing is assumed about the
\* processors, nor about when checkAllRSS is called again.
SpecLive == Init /\ [][Next]_vars /\ WF_vars(FinishCycle)

\* the check cycle with its sender goroutines, for the rule table in which
\* every user has rules.  The coordinator is scheduled as in SpecLive;
\* nothing is assumed about the senders: they may never return.
InitSend ==
    /\ CycleIdle
    /\ user_keywords = [u \in Users |-> IF u = 1 THEN <<T_a>> ELSE <<T_b, T_nab>>]
    /\ mt = MatchIdle
    /\ ht = HashIdle
    /\ dl = DeliverIdle
    /\ sd = SendersIdle
    /\ pf = PrefsIdle
    /\ rp = AnyDocument
    /\ AIIdle

NextSend == Next \/ SenderReturns

SpecSend == InitSend /\ [][NextSend]_vars /\ WF_vars(FinishCycle)

\* the check cycle on feeds that serve the same document at every fetch,
\* started before the first fetch of the feeds or when both have a cursor
InitRepeat ==
    /\ now = 1
    /\ feed_data \in {[f \in FeedNames |-> NoRow], [f \in FeedNames |-> Row(0)]}
    /\ cpc = "idle"
    /\ cycle = 0
    /\ userKeywords = EmptyTable
    /\ pc = [s \in SubIDs |-> "idle"]
    /\ ps = [s \in SubIDs |-> FreshLocals]
    /\ dispatched = EmptyBag
    /\ maxSeen = [f \in FeedNames |-> 0]
    /\ faults = 0
    /\ user_keywords = [u \in Users |-> IF u = 1 THEN <<T_a>> ELSE <<T_b, T_nab>>]
    /\ mt = MatchIdle
    /\ ht = HashIdle
    /\ dl = DeliverIdle
    /\ sd = SendersIdle
    /\ pf = PrefsIdle
    /\ \E d1 \in FeedDocsOf(1), d2 \in FeedDocsOf(2) :
          rp = [same |-> TRUE, doc |-> [s \in SubIDs |-> IF s = 1 THEN d1 ELSE d2]]
    /\ AIIdle

SpecRepeat == InitRepeat /\ [][Next]_vars

InitM ==
    /\ InitMatch
    /\ ht = HashIdle
    /\ dl = DeliverIdle
    /\ sd = SendersIdle
    /\ pf = PrefsIdle
    /\ rp = AnyDocument
    /\ CycleIdle
    /\ user_keywords = [u \in Users |-> <<>>]
    /\ AIIdle

NextM == MatchRun /\ UNCHANGED <<ht, dl, sd, pf, rp, cvars, avars>>

SpecMatch == InitM /\ [][NextM]_vars

InitAI ==
    /\ AIIdle
    /\ CycleIdle
    /\ user_keywords = [u \in Users |-> <<>>]
    /\ mt = MatchIdle
    /\ ht = HashIdle
    /\ dl = DeliverIdle
    /\ sd = SendersIdle
    /\ pf = PrefsIdle
    /\ rp = AnyDocument

NextAI ==
    \E p \in Callers :
        \/ BeginRequest(p)
        \/ CacheLookup(p)
        \/ ProviderCall(p)
        \/ ProviderFail(p)
        \/ CacheWrite(p)
        \/ UsageSelect(p)
        \/ UsageWrite(p)

SpecAI == InitAI /\ [][NextAI]_vars

InitH ==
    /\ InitHash
    /\ dl = DeliverIdle
    /\ sd = SendersIdle
    /\ pf = PrefsIdle
    /\ rp = AnyDocument
    /\ mt = MatchIdle
    /\ CycleIdle
    /\ user_keywords = [u \in Users |-> <<>>]
    /\ AIIdle

NextH == HashRun /\ UNCHANGED <<mt, dl, sd, pf, rp, cvars, avars>>

\* the hash of the two handlers on pairs of requests
SpecHash == InitH /\ [][NextH]_vars

InitD ==
    /\ InitDeliver
    /\ sd = SendersIdle
    /\ pf = PrefsIdle
    /\ rp = AnyDocument
    /\ mt = MatchIdle
    /\ ht = HashIdle
    /\ CycleIdle
    /\ user_keywords = [u \in Users |-> <<>>]
    /\ AIIdle

NextD ==
    /\ \/ NoAIHandler
       \/ GetPreferences
       \/ GetPreferencesFail
       \/ PrepareContent
       \/ TranslateStep
       \/ SummarizeStep
       \/ SendStep
    /\ UNCHANGED <<mt, ht, sd, pf, rp, cvars, avars>>

\* one delivery event, for every message, subscriber, configuration and
\* AI outcome
SpecDeliver == InitD /\ [][NextD]_vars

InitP ==
    /\ CycleIdle
    /\ user_keywords = [u \in Users |-> <<>>]
    /\ mt = MatchIdle
    /\ ht = HashIdle
    /\ dl = DeliverIdle
    /\ sd = SendersIdle
    /\ pf = PrefsIdle
    /\ rp = AnyDocument
    /\ AIIdle

NextP ==
    \/ \E p \in PreferenceArgs : UpdateSelect(p) \/ UpdateSelectFail(p)
    \/ UpdateWrite
    \/ UpdateWriteFail
    \/ \E u \in Users : GetUserAIPreferences(u) \/ GetUserAIPreferencesFail(u)

SpecPrefs == InitP /\ [][NextP]_vars

-----------------------------------------------------------------------------
(* Properties of the check cycle (Spec).                                   *)

\* the stored cursor of the feed of s, as a time
cursorOf(s) == ParseTime(feed_data[FeedOf(s)].last_update_time)

\* C1: for every feed the stored cursor never decreases from one fetch cycle
\* to the next, and after a fetch it is never older (in the whole seconds it
\* is stored in) than the greatest item time of the earlier fetches
C1_CursorNeverRegresses ==
    \A s \in SubIDs :
        (pc[s] = "fetched" /\ ps[s].updated = "ok" /\ feed_data[FeedOf(s)].exists) =>
            /\ ps[s].found = "row" =>
                  cursorOf(s) >= ParseTime(ps[s].stored.last_update_time)
            /\ feed_data[FeedOf(s)].last_update_time >= FormatTime(ps[s].seenBefore)

\* C2: the first fetch of a feed without a cursor row creates the row and
\* returns no new item
C2_FirstFetchNothingNew ==
    \A s \in SubIDs :
        (pc[s] = "fetched" /\ ps[s].found = "norow") =>
            /\ feed_data[FeedOf(s)].exists
            /\ ps[s].messages = <<>>

\* the fetched items as messages, each with its effective time: published,
\* else updated, else the time of the fetch
itemsAsMessages(s) ==
    [i \in 1..Len(ps[s].items) |->
        LET it == ps[s].items[i] IN
        Message(it.Title, it.Description,
                CASE it.PublishedParsed # <<>> -> it.PublishedParsed[1]
                  [] it.PublishedParsed = <<>> /\ it.UpdatedParsed # <<>> ->
                         it.UpdatedParsed[1]
                  [] OTHER -> ps[s].clock)]

afterStoredCursor(s, m) == m.PubDate > ParseTime(ps[s].stored.last_update_time)

\* C3: when the cursor row of the feed was read, the messages fetchRSS
\* returns are exactly the fetched items whose effective time is strictly
\* after the stored cursor, in the order of the document
C3_NewItemsAfterCursor ==
    \A s \in SubIDs :
        (pc[s] = "fetched" /\ ps[s].found = "row") =>
            ps[s].messages =
                SelectSeq(itemsAsMessages(s), LAMBDA m : afterStoredCursor(s, m))

\* C3 witness: a fetch with a stored cursor returned one of two items, the
\* other being dated exactly at the cursor
C3_Witness ==
    \E s \in SubIDs :
        /\ pc[s] = "fetched"
        /\ ps[s].found = "row"
        /\ Len(ps[s].items) = 2
        /\ Len(ps[s].messages) = 1
        /\ \E i \in 1..2 : itemsAsMessages(s)[i].PubDate
                              = ParseTime(ps[s].stored.last_update_time)

allPushed(s) ==
    \A i \in 1..Len(ps[s].messages) : \A j \in 1..Len(Sub(s).Users) :
        LET m == ps[s].messages[i]
            u == Sub(s).Users[j]
        IN  (Len(user_keywords[u]) > 0 /\ Len(matchesKeywords(m, user_keywords[u])) > 0)
              => CopiesIn(Push(u, s, m.Title, "user"), dispatched) >= 1

\* C10: when the fetch of one subscription fails with a network error, the
\* processor of another subscription of the cycle still runs to its own
\* return: its matching new items are dispatched and (no statement on
\* feed_data failing) its cursor is at the greatest time it fetched
C10_FetchFailureIsolated ==
    \A s, t \in SubIDs :
        (s # t /\ pc[t] = "done" /\ ps[t].fetchErr /\ pc[s] = "done") =>
            /\ ps[s].ret # "none"
            /\ ps[s].ret = "pushed" => allPushed(s)
            /\ (ps[s].ret \in {"nonew", "pushed"} /\ ps[s].latestTime # 0
                  /\ faults = 0) =>
                   feed_data[FeedOf(s)] = Row(FormatTime(ps[s].latestTime))

\* C10 witness: a finished cycle in which one fetch failed and the other
\* processor dispatched and moved its cursor
C10_Witness ==
    \E s, t \in SubIDs :
        /\ s # t
        /\ cpc = "idle"
        /\ ps[t].fetchErr
        /\ ps[s].ret = "pushed"
        /\ \E d \in BagToSet(dispatched) : d.sub = s
        /\ feed_data[FeedOf(s)] = Row(FormatTime(ps[s].latestTime))

-----------------------------------------------------------------------------
(* Properties of matchesKeywords (SpecMatch).                              *)

SaleMessage == Message(T_Sale, T_50off, 0)

\* some block rule of the list hits the content
someBlockRuleHits(msg, keywords) ==
    \E i \in 1..Len(keywords) :
        /\ ruleIsBlock(keywords[i])
        /\ keywordHits(matchContent(msg), ToLower(ruleText(keywords[i])))

\* C6: when a block rule matches the message the result is empty, whatever
\* inclusion rules match and whatever the order of the rules; "Sale" /
\* "50% off" with ["-sale", "50%"] gives nothing, with ["sale"] gives "sale"
C6_BlockRuleWins ==
    mt.done =>
        /\ someBlockRuleHits(mt.msg, mt.keywords) => mt.result = <<>>
        /\ (mt.msg = SaleMessage /\ mt.keywords = <<T_nsale, T_50pct>>)
              => mt.result = <<>>
        /\ (mt.msg = SaleMessage /\ mt.keywords = <<T_sale>>)
              => mt.result = <<T_sale>>

\* C6 witness: the block rule comes after an inclusion rule that matches
C6_Witness ==
    /\ mt.done
    /\ mt.msg = SaleMessage
    /\ mt.keywords = <<T_50pct, T_nsale>>
    /\ mt.result = <<>>

\* C7 as claimed: "dea*" matches "deal" and "dealer" and does not match
\* content whose only "dea" is inside "idea"
C7_WildcardAnchored ==
    (mt.done /\ mt.keywords = <<T_deaW>> /\ mt.msg.Description = <<>>) =>
        /\ mt.msg.Title \in {T_deal, T_dealer} => mt.result = <<T_deaW>>
        /\ mt.msg.Title = T_idea => mt.result = <<>>

hasLineBreak(text) == \E i \in 1..Len(text) : text[i] = "\n"

\* C7 as amended: "dea*" matches a content without line break exactly when
\* "dea" occurs in it anywhere, inside "idea" too
C7_WildcardUnanchored ==
    (mt.done /\ mt.keywords = <<T_deaW>> /\ ~hasLineBreak(matchContent(mt.msg))) =>
        /\ Contains(matchContent(mt.msg), T_dea) => mt.result = <<T_deaW>>
        /\ ~Contains(matchContent(mt.msg), T_dea) => mt.result = <<>>

\* C7 witness: "dea*" matched "idea"
C7_Witness ==
    /\ mt.done
    /\ mt.keywords = <<T_deaW>>
    /\ mt.msg.Title = T_idea
    /\ mt.result = <<T_deaW>>

-----------------------------------------------------------------------------
(* Properties of the AI request handlers (SpecAI).                         *)

C5_AtMostOnePaidCallPerInput ==
    \A c, d \in BagToSet(paidCalls) :
        c[1] = d[1] => (c = d /\ CopiesIn(c, paidCalls) = 1)

isShortSummary(r) == r.op = "summarize" /\ Len(r.text) < r.minLength

\* C9: a summarize request whose text is shorter than minLength ends with an
\* invalid_request error, writes no cache row (its hash never is in the
\* cache, so an identical request misses again) and writes no usage
C9_ShortSummaryRefused ==
    \A p \in Callers :
        isShortSummary(rq[p].req) =>
            /\ rq[p].hash \notin DOMAIN ai_processing_records
            /\ rq[p].pc \in {"lookup", "provider", "done"}
            /\ ~rq[p].hit /\ ~rq[p].called
            /\ rq[p].cacheWrite = "no" /\ rq[p].usage = "no"
            /\ rq[p].pc = "done" => rq[p].err = "invalid_request"

\* C9 witness: such a request has returned its error, after an identical
\* request had been made
C9_Witness ==
    \E p, q \in Callers :
        /\ p # q
        /\ isShortSummary(rq[p].req) /\ rq[p].pc = "done"
        /\ rq[q].req = rq[p].req /\ rq[q].pc = "done"
        /\ rq[p].err = "invalid_request"

-----------------------------------------------------------------------------
(* Properties of the coordinator (SpecLive).                               *)

\* a step that starts a cycle starts the processor of every subscription
startsEveryProcessor ==
    (cpc = "idle" /\ cpc' = "waiting") => \A s \in SubIDs : pc'[s] = "fetch"

\* a step that declares the cycle done finds every processor returned
doneAfterEveryProcessor ==
    (cpc = "waiting" /\ cpc' = "idle") => \A s \in SubIDs : pc[s] = "done"

\* C11: checkAllRSS starts one processor per subscription, declares the
\* cycle done only when every processor has returned (completed or failed),
\* and, once every processor has returned, the cycle is eventually declared
\* done
C11_CycleWaitsForAll ==
    /\ [][startsEveryProcessor /\ doneAfterEveryProcessor]_vars
    /\ (cpc = "waiting" /\ \A s \in SubIDs : pc[s] = "done") ~> (cpc = "idle")

\* C11 witness: a cycle is declared done, one processor having failed and
\* one having pushed
C11_Witness ==
    /\ cpc = "idle"
    /\ \E s, t \in SubIDs : ps[s].ret = "fetcherr" /\ ps[t].ret = "pushed"

-----------------------------------------------------------------------------
(* Further properties of the check cycle (Spec).                           *)

\* C12: every notification to a subscriber comes with an abbreviated copy
\* to the administrator, whoever the subscriber is
C12_AdminCopyOfEveryEvent ==
    \A d \in BagToSet(dispatched) :
        d.kind = "user" =>
            CopiesIn(Push(ADMINIDS, d.sub, d.title, "admin"), dispatched) >= 1

\* a step of the processor of subscription s within a cycle
stepOf(s) ==
    /\ cpc = "waiting" /\ cpc' = "waiting"
    /\ <<pc[s], ps[s]>>' # <<pc[s], ps[s]>>

\* C15: a step of the fetch of one subscription leaves the cursor row, the
\* position and the locals (the new-item set among them) of every other
\* subscription as they are, and the cursor it reads is the row of its own
\* feed
C15_FetchIsFeedLocal ==
    [][\A s \in SubIDs :
          stepOf(s) =>
            /\ \A t \in SubIDs \ {s} :
                  /\ feed_data'[FeedOf(t)] = feed_data[FeedOf(t)]
                  /\ pc'[t] = pc[t]
                  /\ ps'[t] = ps[t]
            /\ (pc[s] = "select" /\ ps'[s].found = "row") =>
                  ps'[s].stored = feed_data[FeedOf(s)]]_vars

\* C15 witness: one fetch has written its cursor while the other fetch,
\* which read its own cursor before, has not yet returned
C15_Witness ==
    \E s, t \in SubIDs :
        /\ s # t
        /\ pc[s] = "fetched" /\ ps[s].updated = "ok"
        /\ pc[t] = "loop" /\ ps[t].found = "row"
        /\ feed_data[FeedOf(t)] = ps[t].stored
        /\ feed_data[FeedOf(s)] # feed_data[FeedOf(t)]

\* C18: when reading the cursor of a feed fails, the fetch reports the
\* failure and returns no new item
C18_CursorReadFailureReported ==
    \A s \in SubIDs :
        (pc[s] = "fetched" /\ ps[s].found \in {"err", "inserterr"}) =>
            /\ ps[s].fetchErr
            /\ ps[s].messages = <<>>

\* a processor that has left fetchRSS at the test of len(feed.Items)
leftOnEmptyDocument(s) ==
    pc[s] = "fetch" /\ pc'[s] = "done" /\ ~ps'[s].fetchErr

\* C19: a fetch whose document has no item returns no message and writes
\* nothing to feed_data (no row created, none updated); only a fetch with
\* items goes on to the cursor
C19_EmptyDocumentNoCursorWrite ==
    /\ [][\A s \in SubIDs :
            leftOnEmptyDocument(s) =>
              /\ feed_data' = feed_data
              /\ ps'[s].messages = <<>>
              /\ ps'[s].updated = "no"]_vars
    /\ [](\A s \in SubIDs :
            pc[s] \in {"select", "insert", "loop", "fetched"} =>
                Len(ps[s].items) > 0)

\* C19 witness: the first fetch of a feed got an empty document and there is
\* still no cursor row
C19_Witness ==
    \E s \in SubIDs :
        /\ pc[s] = "done"
        /\ ps[s].ret = "empty"
        /\ ~feed_data[FeedOf(s)].exists

-----------------------------------------------------------------------------
(* Further properties of the AI request handlers (SpecAI).                 *)

\* the step in which the provider call of p fails and the handler returns
providerFailed(p) == rq[p].pc = "provider" /\ rq'[p].pc = "done"

\* C14: when the provider call fails after a cache miss, the handler returns
\* an error of the provider and no result, and the step writes neither the
\* cache nor the usage table; the request never gets to the cache write or
\* to recordUsage
C14_ProviderFailureNoTrace ==
    /\ [][\A p \in Callers :
            providerFailed(p) =>
              /\ rq'[p].err \in ErrorTypes
              /\ rq'[p].result = NoReply
              /\ ai_processing_records' = ai_processing_records
              /\ ai_usage_stats' = ai_usage_stats]_vars
    /\ [](\A p \in Callers :
            rq[p].err # "none" =>
              /\ rq[p].pc = "done"
              /\ ~rq[p].hit /\ ~rq[p].called
              /\ rq[p].cacheWrite = "no" /\ rq[p].usage = "no")

\* C14 witness: a request missed the cache, its provider call failed with a
\* network error, and the tables hold what an earlier request wrote
C14_Witness ==
    \E p \in Callers :
        /\ rq[p].pc = "done"
        /\ rq[p].err = "network"
        /\ ~rq[p].lookupFailed
        /\ rq[p].hash \notin DOMAIN ai_processing_records
        /\ Len(ai_usage_stats) = 1
        /\ DOMAIN ai_processing_records # {}

\* no handler is between its entry and its return
allHandlersReturned == \A p \in Callers : rq[p].pc \in {"idle", "done"}

\* C16: the usage table has at most one row for the day and, no statement
\* having failed, that row counts every successful provider call
C16_OneUsageRowCountsAll ==
    /\ Len(ai_usage_stats) <= 1
    /\ (aiFaults = 0 /\ allHandlersReturned /\ paidCalls # EmptyBag) =>
          /\ Len(ai_usage_stats) = 1
          /\ ai_usage_stats[1].translate_count + ai_usage_stats[1].summarize_count
                = BagCardinality(paidCalls)

-----------------------------------------------------------------------------
(* Properties of generateContentHash (SpecHash).                           *)

\* C17: the same request always gives the same hashed text, and two
\* requests that differ in operation, text, source language, target
\* language or length bounds never give the same hashed text
C17_HashedTextInjective ==
    ht.done =>
        /\ ht.a = ht.b => ht.ha = ht.hb
        /\ ht.a # ht.b => ht.ha # ht.hb


-----------------------------------------------------------------------------
(* Properties of a delivery event (SpecDeliver).                           *)

\* the notifications of the event handed to the sender for the subscriber
userNotifications == SelectSeq(dl.sent, LAMBDA n : n.kind = "user")

hasLabel(text, e) == \E i \in 1..Len(text) : text[i] = e

\* the message of the event without any AI result
plainRendering ==
    htmlMessageOf(dl.sub, PlainMessage(dl.processedMsg.Original),
                  formatKeywords(dl.matchedKeywords))

\* C13: a delivery event hands exactly one notification for the subscriber
\* to the sender, whatever the AI calls answer: a failed translation or
\* summary is left out of the message and the other result is kept, and
\* when no AI result exists the message is the plain one.
C13_OneNotificationPerEvent ==
    /\ dl.pc \in {"idle", "prefs", "ai", "translate", "summarize", "send", "done"}
    /\ dl.pc # "done" => dl.sent = <<>>
    /\ dl.pc = "done" =>
         /\ Len(userNotifications) = 1
         /\ userNotifications[1].to = dl.userID
         /\ LET text == userNotifications[1].text
            IN  /\ (hasLabel(text, L_translation) \/ hasLabel(text, L_linktrans))
                      <=> dl.translate = "ok"
                /\ (hasLabel(text, L_summary) \/ hasLabel(text, L_linksum))
                      <=> dl.summarize = "ok"
                /\ (dl.translate # "ok" /\ dl.summarize # "ok")
                      => text = plainRendering

\* witness of C13: both AI calls of an event failed and the event is over
C13_Witness ==
    /\ dl.pc = "done"
    /\ dl.translate = "err"
    /\ dl.summarize = "err"
    /\ Len(userNotifications) = 1

\* the index of label e in the text
labelAt(text, e) == CHOOSE i \in 1..Len(text) : text[i] = e

\* the text after label e up to the closing line breaks
sectionAfter(text, e, closing) ==
    SubSeq(text, labelAt(text, e) + 1, Len(text) - closing)

\* text shown is original cut to cap bytes and "..." when it is longer
isCapped(shown, original, cap) ==
    IF Len(original) <= cap THEN shown = original
    ELSE /\ Len(shown) = cap + 3
         /\ SubSeq(shown, 1, cap) = SubSeq(original, 1, cap)
         /\ SubSeq(shown, cap + 1, cap + 3) = <<".", ".", ".">>

\* the sections of an AI message: a label exactly when its result exists,
\* translation before summary before the original text
sectionsInOrder(text, pm) ==
    /\ hasLabel(text, L_translation) <=> pm.Translated # <<>>
    /\ hasLabel(text, L_summary) <=> pm.Summary # <<>>
    /\ hasLabel(text, L_original) <=> pm.Original.Description # <<>>
    /\ \A e \in {L_translation, L_summary, L_original} :
          Cardinality({i \in 1..Len(text) : text[i] = e}) <= 1
    /\ (hasLabel(text, L_translation) /\ hasLabel(text, L_summary))
          => labelAt(text, L_translation) < labelAt(text, L_summary)
    /\ \A e \in {L_translation, L_summary} :
          (hasLabel(text, e) /\ hasLabel(text, L_original))
             => labelAt(text, e) < labelAt(text, L_original)

\* C20: in full delivery mode a message without AI result shows its
\* description inline; a message with AI results shows a translation
\* section and a summary section, each exactly when its result exists,
\* before the original text, which is cut to OriginalCap bytes (FormatCap in
\* FormatMessage) and present when the description is not empty.
C20_FullModeFormatting ==
    (dl.pc = "done" /\ dl.processedMsg.Original.Description # <<>>) =>
        LET pm   == dl.processedMsg
            text == userNotifications[1].text
            desc == cleanHTMLContent(pm.Original.Description)
            fm   == FormatMessage(pm)
        IN  /\ (dl.sub.Channel = 1 /\ ~pm.HasAI) =>
                  /\ ~\E e \in {L_translation, L_summary, L_original} :
                         hasLabel(text, e)
                  /\ Len(text) > Len(desc)
                  /\ SubSeq(text, Len(text) - Len(desc), Len(text) - 1) = desc
            /\ (dl.sub.Channel = 1 /\ pm.HasAI) =>
                  /\ pm.Translated # <<>> \/ pm.Summary # <<>>
                  /\ sectionsInOrder(text, pm)
                  /\ isCapped(sectionAfter(text, L_original, 1), desc, OriginalCap)
            /\ ~pm.HasAI =>
                  /\ ~\E e \in {L_translation, L_summary, L_original} :
                         hasLabel(fm, e)
                  /\ \E i \in 1..Len(fm) :
                         SubSeq(fm, i, i + Len(pm.Original.Description) - 1)
                            = pm.Original.Description
            /\ pm.HasAI =>
                  /\ sectionsInOrder(fm, pm)
                  /\ isCapped(SubSeq(fm, labelAt(fm, L_original) + 1,
                                     labelAt(fm, L_link) - 3),
                              pm.Original.Description, FormatCap)

\* witness of C20: a full-mode message with a translation, without summary,
\* whose description is longer than both caps
C20_Witness ==
    /\ dl.pc = "done"
    /\ dl.sub.Channel = 1
    /\ dl.translate = "ok"
    /\ dl.summarize = "err"
    /\ Len(dl.processedMsg.Original.Description) > FormatCap
    /\ Len(userNotifications[1].text) < FormatCap

-----------------------------------------------------------------------------
(* Properties of the check cycle (Spec), continued.                        *)

\* C21: when a fetch read the cursor row and no item of the document is
\* later than that cursor, the fetch returns no message and the row of the
\* feed is still the row it read.
C21_CursorKeptWhenNothingNewer ==
    \A s \in SubIDs :
        (/\ pc[s] = "fetched"
         /\ ps[s].found = "row"
         /\ ps[s].latestTime <= ParseTime(ps[s].stored.last_update_time))
        => /\ ps[s].messages = <<>>
           /\ feed_data[FeedOf(s)] = ps[s].stored

\* the subscribers of subscription s
subscribersOf(s) == {Sub(s).Users[j] : j \in 1..Len(Sub(s).Users)}

\* the new messages of processor s with the given title that match the
\* rules user u had when the cycle loaded them
matchingMessages(s, u, title) ==
    {i \in 1..Len(ps[s].messages) :
        /\ ps[s].messages[i].Title = title
        /\ u \in DOMAIN userKeywords
        /\ Len(userKeywords[u]) > 0
        /\ Len(matchesKeywords(ps[s].messages[i], userKeywords[u])) > 0}

\* C22: when the processor of a subscription has gone through its new
\* messages, the notifications dispatched for the subscription are one per
\* pair of a new message and a subscriber whose rule list is not empty and
\* matches the message, and no other: none for a user who is not a
\* subscriber, none for a pair without match.
C22_DispatchesAreTheMatches ==
    /\ \A d \in BagToSet(dispatched) :
          d.kind = "user" => d.to \in subscribersOf(d.sub)
    /\ \A s \in SubIDs :
          (pc[s] = "done" /\ ps[s].ret = "pushed") =>
              \A u \in Users, item \in FeedItems :
                  CopiesIn(Push(u, s, item.Title, "user"), dispatched)
                    = IF u \in subscribersOf(s)
                      THEN Cardinality(matchingMessages(s, u, item.Title))
                      ELSE 0

\* witness of C22: a finished processor with a pair that was dispatched and
\* a pair of a subscriber with rules that was not, and a finished processor
\* with a new message that matches the rules of a user who is no subscriber
C22_Witness ==
    /\ \E s \in SubIDs :
          /\ pc[s] = "done"
          /\ ps[s].ret = "pushed"
          /\ \E u \in subscribersOf(s), i \in 1..Len(ps[s].messages) :
                CopiesIn(Push(u, s, ps[s].messages[i].Title, "user"), dispatched) = 1
          /\ \E u \in subscribersOf(s), i \in 1..Len(ps[s].messages) :
                /\ u \in DOMAIN userKeywords
                /\ CopiesIn(Push(u, s, ps[s].messages[i].Title, "user"), dispatched) = 0
    /\ \E s \in SubIDs :
          /\ pc[s] = "done"
          /\ ps[s].ret = "pushed"
          /\ \E u \in Users \ subscribersOf(s), i \in 1..Len(ps[s].messages) :
                /\ u \in DOMAIN userKeywords
                /\ Len(matchesKeywords(ps[s].messages[i], userKeywords[u])) > 0

-----------------------------------------------------------------------------
(* Properties of the matcher (SpecMatch), continued.                       *)

\* a rule text that is a literal text followed by one '*'
isPrefixRule(keyword) ==
    /\ Len(keyword) >= 2
    /\ keyword[Len(keyword)] = "*"
    /\ \A i \in 1..(Len(keyword) - 1) : keyword[i] # "*"

\* C23: a wildcard rule of the form "text*" is returned only for a message
\* whose lowered content holds the lowered text, character for character.
C23_WildcardRestIsLiteral ==
    mt.done =>
        \A i \in 1..Len(mt.result) :
            isPrefixRule(mt.result[i]) =>
                Contains(matchContent(mt.msg),
                         ToLower(SubSeq(mt.result[i], 1, Len(mt.result[i]) - 1)))

\* the rule has a '*' and its pattern does not compile
isUncompilable(rawKeyword) ==
    /\ Contains(ToLower(ruleText(rawKeyword)), Str_star)
    /\ regexpCompile(keywordPattern(ToLower(ruleText(rawKeyword)))).err

\* the rule list without the rule at position i
withoutRule(keywords, i) ==
    SubSeq(keywords, 1, i - 1) \o SubSeq(keywords, i + 1, Len(keywords))

\* the lowered text of the rule, '*' included, occurs in the lowered content
occursLiterally(msg, rawKeyword) ==
    Contains(matchContent(msg), ToLower(ruleText(rawKeyword)))

\* C24 as stated: a wildcard rule whose pattern does not compile is skipped,
\* the result is that of the other rules.
C24_UncompilableRuleSkipped ==
    mt.done =>
        mt.result = matchesKeywords(mt.msg,
                        SelectSeq(mt.keywords, LAMBDA k : ~isUncompilable(k)))

\* C24 amended: a wildcard rule whose pattern does not compile is tested as
\* a plain rule.  When its text does not occur in the content the result is
\* that of the other rules; when it occurs, a block rule empties the result
\* and an inclusion rule is returned unless a block rule is in the list.
C24_UncompilableRuleIsPlain ==
    mt.done =>
        \A i \in 1..Len(mt.keywords) :
            LET k == mt.keywords[i] IN
            isUncompilable(k) =>
                /\ ~occursLiterally(mt.msg, k) =>
                      mt.result = matchesKeywords(mt.msg, withoutRule(mt.keywords, i))
                /\ (occursLiterally(mt.msg, k) /\ ruleIsBlock(k)) => mt.result = <<>>
                /\ (/\ occursLiterally(mt.msg, k)
                    /\ \A j \in 1..Len(mt.keywords) : ~ruleIsBlock(mt.keywords[j]))
                      => \E n \in 1..Len(mt.result) : mt.result[n] = ruleText(k)

\* witness of C24: an uncompilable rule whose text occurs in the content was
\* returned together with another rule of the list
C24_Witness ==
    /\ mt.done
    /\ Len(mt.result) = 2
    /\ mt.result[1] # mt.result[2]
    /\ \E i \in 1..Len(mt.keywords) :
          /\ isUncompilable(mt.keywords[i])
          /\ occursLiterally(mt.msg, mt.keywords[i])

\* a rule matches as the claim has it: a wildcard rule by its pattern, any
\* other rule by containment
matchesAsStated(content, lowerKeyword) ==
    LET re == regexpCompile(keywordPattern(lowerKeyword))
    IN  IF Contains(lowerKeyword, Str_star)
        THEN ~re.err /\ MatchString(re, content)
        ELSE Contains(content, lowerKeyword)

\* a rule matches as the loop body has it: by its pattern, or by containment
\* of its text
matchesOrOccurs(content, lowerKeyword) ==
    LET re == regexpCompile(keywordPattern(lowerKeyword))
    IN  \/ Contains(content, lowerKeyword)
        \/ Contains(lowerKeyword, Str_star) /\ ~re.err /\ MatchString(re, content)

\* the texts of the inclusion rules at the positions of the set, in order
RECURSIVE rulesAt(_, _, _)
rulesAt(keywords, positions, i) ==
    IF i > Len(keywords) THEN <<>>
    ELSE (IF i \in positions THEN <<ruleText(keywords[i])>> ELSE <<>>)
         \o rulesAt(keywords, positions, i + 1)

nonEmptyRules == {i \in 1..Len(mt.keywords) : TrimSpace(mt.keywords[i]) # <<>>}

lowerRule(i) == ToLower(ruleText(mt.keywords[i]))

lowered(texts) == [i \in 1..Len(texts) |-> ToLower(texts[i])]

\* C25 as stated: when no block rule matches, the result is the inclusion
\* rules that match, in rule order, a wildcard rule matching by its pattern
\* only.
C25_ResultIsTheMatchingRules ==
    LET content == matchContent(mt.msg)
        hits    == {i \in nonEmptyRules : matchesAsStated(content, lowerRule(i))}
    IN  (mt.done /\ \A i \in hits : ~ruleIsBlock(mt.keywords[i])) =>
            mt.result = rulesAt(mt.keywords, hits, 1)

\* C25 amended: when no block rule matches, the result is the inclusion
\* rules that match, in rule order; a rule without '*' matches when its
\* lowered text occurs in the lowered title and description, a wildcard rule
\* when its pattern compiles and matches or its lowered text occurs; the
\* letter case of rules and message changes only the case of the texts
\* returned.
C25_ResultIsTheHittingRules ==
    LET content == matchContent(mt.msg)
        hits    == {i \in nonEmptyRules : matchesOrOccurs(content, lowerRule(i))}
        lowMsg  == Message(ToLower(mt.msg.Title), ToLower(mt.msg.Description), 0)
    IN  (mt.done /\ \A i \in hits : ~ruleIsBlock(mt.keywords[i])) =>
            /\ mt.result = rulesAt(mt.keywords, hits, 1)
            /\ lowered(mt.result) = matchesKeywords(lowMsg, lowered(mt.keywords))

\* witness of C25: two rules of different letter case were returned for a
\* message in mixed case
C25_Witness ==
    /\ mt.done
    /\ mt.keywords = <<T_SALE, T_sale>>
    /\ mt.result = <<T_SALE, T_sale>>
    /\ mt.msg.Title = T_Sale

\* the rules with a text: not empty after TrimSpace and without the marker
rulesWithText(keywords) ==
    SelectSeq(keywords, LAMBDA k : ruleText(k) # <<>>)

\* C32: a rule whose text is empty after trimming and stripping the block
\* marker does not change the result: the result is that of the rule list
\* without such rules.
C32_EmptyRuleHasNoEffect ==
    mt.done => mt.result = matchesKeywords(mt.msg, rulesWithText(mt.keywords))


-----------------------------------------------------------------------------
(* Properties of the AI request handlers (SpecAI), continued.              *)

\* the sum of a column of the usage rows of the day
RECURSIVE usageTotal(_, _)
usageTotal(rows, column) ==
    IF rows = <<>> THEN 0 ELSE Head(rows)[column] + usageTotal(Tail(rows), column)

\* caller p ends recordUsage with a successful write, no statement on the
\* AI tables having failed so far
recordsUsage(p) ==
    /\ rq[p].pc = "usageWrite"
    /\ rq'[p].pc = "done"
    /\ rq'[p].usage = "ok"
    /\ aiFaults' = 0

\* C26: a request that missed the cache and got a result from the provider
\* has its cache record written, and its usage write adds 1 to the counter
\* of its operation, nothing to the other counter and the tokens of the
\* result to the token total of the day.
C26_UsageCountedOnce ==
    [][\A p \in Callers :
          recordsUsage(p) =>
             LET op == rq[p].req.op IN
             /\ rq[p].called /\ ~rq[p].hit
             /\ rq[p].hash \in DOMAIN ai_processing_records
             /\ usageTotal(ai_usage_stats', "translate_count")
                  = usageTotal(ai_usage_stats, "translate_count")
                      + (IF op = "translate" THEN 1 ELSE 0)
             /\ usageTotal(ai_usage_stats', "summarize_count")
                  = usageTotal(ai_usage_stats, "summarize_count")
                      + (IF op = "summarize" THEN 1 ELSE 0)
             /\ usageTotal(ai_usage_stats', "total_tokens")
                  = usageTotal(ai_usage_stats, "total_tokens") + rq[p].result.tokens
      ]_vars

\* C33: a request whose cache write failed goes on to recordUsage and ends
\* with the reply of the provider and no error; its usage is counted unless
\* a statement of recordUsage fails itself.
C33_CacheWriteFailureAbsorbed ==
    \A p \in Callers :
        rq[p].cacheWrite = "failed" =>
          /\ rq[p].pc \in {"usageSelect", "usageWrite", "done"}
          /\ rq[p].err = "none"
          /\ rq[p].called
          /\ rq[p].result \in Replies
          /\ <<rq[p].hash, rq[p].result.out>> \in BagToSet(paidCalls)
          /\ rq[p].pc = "done" =>
               /\ rq[p].usage \in {"ok", "failed"}
               /\ rq[p].usage = "ok" =>
                    /\ usageTotal(ai_usage_stats, rq[p].req.op \o "_count") >= 1
                    /\ usageTotal(ai_usage_stats, "total_tokens")
                          >= rq[p].result.tokens

\* witness of C33: a request has returned the provider's reply after its
\* cache write failed, the cache holds no record of it and the usage of the
\* day counts it
C33_Witness ==
    \E p \in Callers :
        /\ rq[p].pc = "done"
        /\ rq[p].cacheWrite = "failed"
        /\ rq[p].usage = "ok"
        /\ rq[p].result \in Replies
        /\ rq[p].hash \notin DOMAIN ai_processing_records
        /\ Len(ai_usage_stats) = 1


-----------------------------------------------------------------------------
(* Properties of a delivery event (SpecDeliver), continued.                *)

\* the stored preference of the subscriber has the flag on
prefersAuto(flag) == dl.row # <<>> /\ dl.row[1][flag]

\* C27: the translation is requested only when the subscriber's preference
\* has auto-translate on and the configuration has translation enabled, the
\* summary only when the preference has auto-summarize on and the
\* configuration has summarization enabled; without an AI configuration,
\* with AI disabled or with a provider other than "openai" nothing is
\* requested.
C27_AIOnlyWhenEnabled ==
    /\ dl.translate # "no" => prefersAuto("AutoTranslate") /\ dl.Translation
    /\ dl.summarize # "no" => prefersAuto("AutoSummarize") /\ dl.Summarization
    /\ (~dl.AI.configured \/ ~dl.AI.Enabled \/ ToLower(dl.AI.Provider) # T_openai)
          => dl.translate = "no" /\ dl.summarize = "no"

\* witness of C27: an event with both preferences on in which the
\* translation was requested and the summary, disabled in the
\* configuration, was not
C27_Witness ==
    /\ dl.pc = "done"
    /\ dl.translate # "no"
    /\ dl.summarize = "no"
    /\ prefersAuto("AutoSummarize")
    /\ ~dl.Summarization

\* C28: when the lookup of the preferences fails, or the subscriber has no
\* preference row, the preferences used are the defaults with translation
\* and summary off: nothing is requested from the AI handlers and the plain
\* message is dispatched to the subscriber.
C28_PreferenceDefaultsDisabled ==
    (dl.pc = "done" /\ (dl.prefsErr \/ (dl.aiHandler /\ dl.row = <<>>))) =>
        /\ ~dl.userPrefs.AutoTranslate
        /\ ~dl.userPrefs.AutoSummarize
        /\ dl.translate = "no"
        /\ dl.summarize = "no"
        /\ Len(userNotifications) = 1
        /\ userNotifications[1].to = dl.userID
        /\ userNotifications[1].text = plainRendering

\* witness of C28: the lookup failed for a subscriber whose stored
\* preference has translation on, translation being enabled
C28_Witness ==
    /\ dl.pc = "done"
    /\ dl.prefsErr
    /\ prefersAuto("AutoTranslate")
    /\ dl.Translation
    /\ Len(dl.processedMsg.Original.Description) >= MinAIContent

-----------------------------------------------------------------------------
(* Properties of the check cycle with its senders (SpecSend).              *)

allProcessorsDone == \A s \in SubIDs : pc[s] = "done"

\* C29: the coordinator never waits for a sender: once every processor has
\* returned it can leave wg.Wait whatever number of senders is still
\* running, and the cycle ends even if no sender ever returns.
C29_DeliveryFireAndForget ==
    /\ []((cpc = "waiting" /\ allProcessorsDone) => ENABLED FinishCycle)
    /\ (cpc = "waiting" /\ allProcessorsDone) ~> (cpc = "idle")

\* witness of C29: the cycle is over while none of the senders it started
\* has returned
C29_Witness ==
    /\ cpc = "idle"
    /\ cycle >= 1
    /\ BagCardinality(dispatched) >= 2
    /\ inFlight = BagCardinality(dispatched)

-----------------------------------------------------------------------------
(* Properties of the preference table (SpecPrefs).                         *)

samePreferences(a, b) ==
    /\ a.AutoTranslate = b.AutoTranslate
    /\ a.AutoSummarize = b.AutoSummarize
    /\ a.PreferredLang = b.PreferredLang
    /\ a.MaxSummaryLength = b.MaxSummaryLength

\* C30: a successful GetUserAIPreferences that follows a successful
\* UpdateUserAIPreferences(p) of the user returns the flags, the language
\* and the length cap of the last such p, whether that call inserted or
\* updated, and the table never holds two rows of one user.
C30_PreferencesUpsert ==
    /\ \A u \in Users : Len(rowsOfUser(pf.user_ai_preferences, u)) <= 1
    /\ (pf.got.err = "nil" /\ pf.got.lastWrite # NoWrite)
          => /\ pf.got.preferences.UserID = pf.got.userID
             /\ samePreferences(pf.got.preferences, pf.got.lastWrite)

\* witness of C30: a read after an update that replaced the user's row by
\* other values than the defaults
C30_Witness ==
    /\ pf.got.err = "nil"
    /\ pf.got.lastWrite # NoWrite
    /\ pf.got.replaced
    /\ pf.got.preferences.AutoTranslate
    /\ pf.got.preferences.PreferredLang = T_en
    /\ pf.got.preferences.MaxSummaryLength # DefaultSummaryLength
    /\ Len(pf.user_ai_preferences) = 1

-----------------------------------------------------------------------------
(* Properties of the check cycle on unchanged feeds (SpecRepeat).          *)

\* C31: while a feed keeps serving the same document, no fetch returns as
\* new an item that an earlier fetch of the feed returned as new.
C31_ItemNewAtMostOnce ==
    \A s \in SubIDs :
        (rp.same /\ pc[s] = "fetched")
           => titlesOf(ps[s].messages) \cap ps[s].returnedBefore = {}

-----------------------------------------------------------------------------
(* Properties of a delivery event (SpecDeliver): short messages.           *)

\* the text of the event's message as the feed gives it, and cleaned
rawText == dl.processedMsg.Original.Title \o <<" ">> \o dl.processedMsg.Original.Description

isShortMessage == Len(cleanHTMLContent(rawText)) < MinAIContent

\* C34: for a message whose cleaned text is shorter than 50 bytes no AI
\* handler is called, so that no provider call and no write of the cache or
\* the usage table happens, whatever the preferences are; the message has
\* no AI result and the subscriber gets the plain message.
C34_ShortMessageSkipsAI ==
    (dl.pc # "idle" /\ isShortMessage) =>
        /\ dl.pc \notin {"translate", "summarize"}
        /\ dl.translate = "no"
        /\ dl.summarize = "no"
        /\ ~dl.processedMsg.HasAI
        /\ dl.processedMsg.Translated = <<>>
        /\ dl.processedMsg.Summary = <<>>
        /\ dl.pc = "done" =>
             /\ Len(userNotifications) = 1
             /\ userNotifications[1].text = plainRendering

\* witness of C34: a delivered message whose text is 50 bytes or more with
\* its markup and shorter without, for a subscriber with both preferences
\* on and both features enabled
C34_Witness ==
    /\ dl.pc = "done"
    /\ isShortMessage
    /\ Len(rawText) >= MinAIContent
    /\ dl.aiHandler
    /\ ~dl.prefsErr
    /\ dl.userPrefs.AutoTranslate /\ dl.userPrefs.AutoSummarize
    /\ dl.Translation /\ dl.Summarization
    /\ dl.content = cleanHTMLContent(rawText)

====
